---- MODULE Spec2Model ----
(***************************************************************************)
(* Formula verification and cross-source record matching of the            *)
(* analyzis_expertize scripts:                                             *)
(*   scripts/parse_calculations.py     parse_float, parse_block,           *)
(*                                     verify_block, main                  *)
(*   scripts/analyze_merged_graphics.py block_index_from_page_graph,       *)
(*                                     find_block_by_k1_k2,                *)
(*                                     find_block_by_l1_l2, main           *)
(*   scripts/analyze_report_adequacy.py load_and_build_rows, main          *)
(*   scripts/stats_d.py                main (the histogram of D)           *)
(*   scripts/analyze_graphics_llm.py   main (the vision batch)             *)
(*   scripts/merge_graphics_llm.py     get_graphs, merge_graph, main       *)
(*   scripts/summarize_llm_graphics.py extract_graphs_from_pages,          *)
(*                                     find_graph_pair_for_block, main     *)
(*                                                                         *)
(* Numbers.  A Python float is modelled by an exact rational <<n, d>> in   *)
(* lowest terms with d > 0.  <<0, 0>> is NaN and <<0, -1>> is Python's     *)
(* None.  Rounding of binary floating point is not modelled: every         *)
(* arithmetic result is the exact quotient, sum or difference.  A Python   *)
(* exception is modelled by an explicit "raised" outcome at the line that  *)
(* raises.                                                                 *)
(***************************************************************************)
EXTENDS Integers, Sequences, FiniteSets, TLC

VARIABLES
    \* parse_calculations.main
    chunks,      \* the chunks re.split produced from the PDF text
    ci,          \* number of chunks the for loop has consumed
    blocks,      \* the list `blocks`
    errors,      \* the list `errors`
    pc,          \* "loop" | "done" | "raised"
    out,         \* content of calculations_verified.json
    \* verify_block applied to one block
    vb, vres, vpc,
    \* find_block_by_k1_k2 / find_block_by_l1_l2 applied to one query
    fblocks, fq, fres, fpc,
    \* analyze_merged_graphics.main
    calc_blocks, \* calc["blocks"]
    graphs,      \* the graph records consumed by the for loop so far
    rows,        \* the list `rows`
    mtrace,      \* per consumed graph: what the matcher chain did
    mpc,         \* "loop" | "raised"
    \* analyze_report_adequacy.load_and_build_rows and main
    a_blocks,    \* calc["blocks"] (blocks_list)
    a_graphs,    \* the graph records consumed by the for loop so far
    a_rows,      \* the list `rows`
    a_trace,     \* per consumed graph: what the matcher chain did
    note_counts, \* main's note_counts, a function from note to count
    apc,         \* "loop" | "returned" | "counted" | "raised"
    \* stats_d.main
    D_values,    \* the list D_values
    di,          \* number of samples the histogram loop has consumed
    hist,        \* the dict `hist`, by bin number 1..8
    hinc,        \* per consumed sample: the bins incremented for it, in order
    spc,         \* "start" | "hist" | "done" | "raised"
    \* analyze_graphics_llm.main, run one or more times over the same directories
    pages_dir,   \* PAGES_DIR.exists()
    images,      \* the pages p whose PAGES_DIR/page_ppp.png exists
    out_files,   \* OUT_DIR: for each page the content of page_ppp.json, or NoOutFile
    run,         \* number of the current run
    force,       \* args.force of the current run
    page_numbers,\* page_numbers of the current run
    bi,          \* number of pages the for loop of the current run has consumed
    api_calls,   \* the calls of call_vision_api so far, over all runs
    blog,        \* per consumed page: what the loop body did
    bpc,         \* "start" | "loop" | "exit0" | "exit1"
    \* merge_graphics_llm.main
    dir_without, \* DIR_WITHOUT: for each page the content of page_ppp.json
    dir_coverage,\* DIR_COVERAGE: for each page the content of page_ppp.json
    m_pages,     \* page_numbers
    mi,          \* number of pages the for loop has consumed
    merged,      \* the dict `merged`: its "pages" and its "graphs"
    mgpc,        \* "loop" | "done"
    \* summarize_llm_graphics.main
    pages_data,  \* pages_data, by page number
    s_blocks,    \* calc["blocks"]
    spi,         \* number of pages extract_graphs_from_pages has consumed
    s_graphs,    \* the list `graphs`
    sbi,         \* number of blocks the for loop of main has consumed
    details,     \* the list `details`
    smpc         \* "extract" | "blocks" | "return0" | "return1" | "raised"

vars == <<chunks, ci, blocks, errors, pc, out, vb, vres, vpc,
          fblocks, fq, fres, fpc, calc_blocks, graphs, rows, mtrace, mpc,
          a_blocks, a_graphs, a_rows, a_trace, note_counts, apc,
          D_values, di, hist, hinc, spc,
          pages_dir, images, out_files, run, force, page_numbers, bi, api_calls,
          blog, bpc,
          dir_without, dir_coverage, m_pages, mi, merged, mgpc,
          pages_data, s_blocks, spi, s_graphs, sbi, details, smpc>>

mainVars  == <<chunks, ci, blocks, errors, pc, out>>
verVars   == <<vb, vres, vpc>>
findVars  == <<fblocks, fq, fres, fpc>>
matchVars == <<calc_blocks, graphs, rows, mtrace, mpc>>
adeqVars == <<a_blocks, a_graphs, a_rows, a_trace, note_counts, apc>>
\* the variables of the scripts modelled further below
statsVars == <<D_values, di, hist, hinc, spc>>
batchVars == <<pages_dir, images, out_files, run, force, page_numbers, bi,
               api_calls, blog, bpc>>
mergeVars == <<dir_without, dir_coverage, m_pages, mi, merged, mgpc>>
summVars  == <<pages_data, s_blocks, spi, s_graphs, sbi, details, smpc>>
lateVars  == <<mergeVars, summVars>>
restVars == <<adeqVars, statsVars, batchVars, lateVars>>

(***************************************************************************)
(* Exact rational arithmetic                                               *)
(***************************************************************************)
Abs(x) == IF x < 0 THEN -x ELSE x

RECURSIVE GCD(_, _)
GCD(a, b) == IF b = 0 THEN a ELSE GCD(b, a % b)

\* n/d in lowest terms, d # 0
Rat(n, d) ==
    LET g == GCD(Abs(n), Abs(d))
        s == IF d < 0 THEN -1 ELSE 1
    IN  <<s * (n \div g), s * (d \div g)>>

NaN    == <<0, 0>>
PyNone == <<0, -1>>
Zero   == <<0, 1>>

IsNaN(a)  == a = NaN
IsNone(a) == a = PyNone
IsNum(a)  == a[2] > 0
IsZero(a) == a = Zero

RNeg(a) == IF IsNaN(a) THEN NaN ELSE <<-a[1], a[2]>>
RAbs(a) == IF IsNaN(a) THEN NaN ELSE <<Abs(a[1]), a[2]>>

RAdd(a, b) ==
    IF IsNaN(a) \/ IsNaN(b) THEN NaN
    ELSE LET g == GCD(a[2], b[2])
         IN  Rat(a[1] * (b[2] \div g) + b[1] * (a[2] \div g), (a[2] \div g) * b[2])

RSub(a, b) == RAdd(a, RNeg(b))

\* a / b for b # 0 (the callers model ZeroDivisionError themselves)
RDiv(a, b) ==
    IF IsNaN(a) \/ IsNaN(b) THEN NaN
    ELSE IF a[1] = 0 THEN Zero
    ELSE LET g1 == GCD(Abs(a[1]), Abs(b[1]))
             g2 == GCD(a[2], b[2])
         IN  Rat((a[1] \div g1) * (b[2] \div g2), (a[2] \div g2) * (b[1] \div g1))

\* The order of n1/d1 and n2/d2 (-1, 0, 1) for n >= 0, d > 0, by integer parts and
\* then the reciprocals of the remainders, so that no product is formed.
RECURSIVE CmpPos(_, _, _, _)
CmpPos(n1, d1, n2, d2) ==
    LET q1 == n1 \div d1
        q2 == n2 \div d2
        r1 == n1 % d1
        r2 == n2 % d2
    IN  IF q1 < q2 THEN -1
        ELSE IF q1 > q2 THEN 1
        ELSE IF r1 = 0 /\ r2 = 0 THEN 0
        ELSE IF r1 = 0 THEN -1
        ELSE IF r2 = 0 THEN 1
        ELSE CmpPos(d2, r2, d1, r1)

RCmp(a, b) ==
    IF a[1] < 0 /\ b[1] >= 0 THEN -1
    ELSE IF a[1] >= 0 /\ b[1] < 0 THEN 1
    ELSE IF a[1] < 0 THEN CmpPos(-b[1], b[2], -a[1], a[2])
    ELSE CmpPos(a[1], a[2], b[1], b[2])

\* Python comparisons: every comparison with NaN is False
RLeq(a, b) == ~IsNaN(a) /\ ~IsNaN(b) /\ RCmp(a, b) <= 0
RLt(a, b)  == ~IsNaN(a) /\ ~IsNaN(b) /\ RCmp(a, b) < 0

RECURSIVE Pow10(_)
Pow10(k) == IF k = 0 THEN 1 ELSE 10 * Pow10(k - 1)

\* a < 10^-k for a >= 0, computed without leaving the integer range:
\* n * 10^k < d  <=>  n <= (d - 1) \div 10^k, and d < 10^10.
LtPow10Neg(a, k) ==
    /\ ~IsNaN(a)
    /\ \/ a[1] <= 0
       \/ k <= 9 /\ a[1] <= (a[2] - 1) \div Pow10(k)

\* Python truth values that verify_block can produce
PyBool(p) == IF p THEN "True" ELSE "False"
Truthy(v) == v = "True"

(***************************************************************************)
(* parse_calculations.verify_block                                         *)
(***************************************************************************)
TOL_ABS == Rat(2, 1000)
TOL_REL == Rat(1, 1000)
EPS_EXP == 12

\* line 80: g1_check = b["K2"] / b["K1"] + b["P2"] / b["P1"]
g1_check_of(b) == RAdd(RDiv(b.K2, b.K1), RDiv(b.P2, b.P1))

\* line 81: g2_check = b["L2"] / b["L1"] + b["R2"] / b["R1"]
g2_check_of(b) == RAdd(RDiv(b.L2, b.L1), RDiv(b.R2, b.R1))

\* mutant of g_check_of: the operands of the subtraction exchanged
g_check_swapped(g1_check, g2_check) == RSub(g1_check, g2_check)

\* line 82: g_check = g2_check - g1_check
g_check_of(g1_check, g2_check) == RSub(g2_check, g1_check)

\* lines 83-86: NaN if abs(g_check) < 1e-12 else b["G1"] / g_check
d_check_of(G1, g_check) ==
    IF LtPow10Neg(RAbs(g_check), EPS_EXP) THEN NaN ELSE RDiv(G1, g_check)

\* mutant of OkAbsOrRel: the relative bound exclusive
OkAbsOrRel_strict(check, stated) ==
    IF RLeq(RAbs(RSub(check, stated)), TOL_ABS) THEN "True"
    ELSE IF IsZero(stated) THEN "raise"
    ELSE PyBool(RLt(RAbs(RDiv(RSub(check, stated), stated)), TOL_REL))

\* lines 87, 88, 90:
\*   abs(check - stated) <= TOL_ABS or abs((check - stated) / stated) <= TOL_REL
\* "raise" is the ZeroDivisionError of the second operand, which Python
\* evaluates only when the first is False.
OkAbsOrRel(check, stated) ==
    IF RLeq(RAbs(RSub(check, stated)), TOL_ABS) THEN "True"
    ELSE IF IsZero(stated) THEN "raise"
    ELSE PyBool(RLeq(RAbs(RDiv(RSub(check, stated), stated)), TOL_REL))

\* line 89:
\*   abs(g_check - G) <= TOL_ABS or (G and abs((g_check - G) / G) <= TOL_REL)
\* `G and ...` is G itself, the float 0.0, when G is zero.
OkG(check, stated) ==
    IF RLeq(RAbs(RSub(check, stated)), TOL_ABS) THEN "True"
    ELSE IF IsZero(stated) THEN "0.0"
    ELSE PyBool(RLeq(RAbs(RDiv(RSub(check, stated), stated)), TOL_REL))

\* mutant of MatchOf: `or` in place of `and` (the first truthy operand, else the last)
MatchOf_or(ok_g1, ok_g2, ok_g, ok_d) ==
    IF Truthy(ok_g1) THEN ok_g1
    ELSE IF Truthy(ok_g2) THEN ok_g2
    ELSE IF Truthy(ok_g) THEN ok_g
    ELSE ok_d

\* line 94: ok_g1 and ok_g2 and ok_g and ok_d (the first falsy operand, else the last)
MatchOf(ok_g1, ok_g2, ok_g, ok_d) ==
    IF ~Truthy(ok_g1) THEN ok_g1
    ELSE IF ~Truthy(ok_g2) THEN ok_g2
    ELSE IF ~Truthy(ok_g) THEN ok_g
    ELSE ok_d

\* The locals of verify_block before line 80 has run
VUnset ==
    [at |-> "call", G1_check |-> PyNone, G2_check |-> PyNone,
     G_check |-> PyNone, D_check |-> PyNone,
     ok_G1 |-> "unset", ok_G2 |-> "unset", ok_G |-> "unset", ok_D |-> "unset",
     match |-> "unset"]

\* verify_block(b): the locals it computed and where it ended: at = "return"
\* (lines 91-95) or at = "raise<line>" for the line whose division by zero
\* raised ZeroDivisionError.
verify_block(b) ==
    IF IsZero(b.K1) \/ IsZero(b.P1) THEN [VUnset EXCEPT !.at = "raise80"]
    ELSE
    LET g1_check == g1_check_of(b)
        r80 == [VUnset EXCEPT !.G1_check = g1_check]
    IN
    IF IsZero(b.L1) \/ IsZero(b.R1) THEN [r80 EXCEPT !.at = "raise81"]
    ELSE
    LET g2_check == g2_check_of(b)
        g_check  == g_check_of(g1_check, g2_check)
        d_check  == d_check_of(b.G1, g_check)
        r86 == [r80 EXCEPT !.G2_check = g2_check, !.G_check = g_check,
                           !.D_check = d_check]
        ok_g1 == OkAbsOrRel(g1_check, b.G1)
    IN
    IF ok_g1 = "raise" THEN [r86 EXCEPT !.at = "raise87"]
    ELSE
    LET ok_g2 == OkAbsOrRel(g2_check, b.G2)
        r87 == [r86 EXCEPT !.ok_G1 = ok_g1]
    IN
    IF ok_g2 = "raise" THEN [r87 EXCEPT !.at = "raise88"]
    ELSE
    LET ok_g == OkG(g_check, b.G)
        ok_d == OkAbsOrRel(d_check, b.D)
        r89 == [r87 EXCEPT !.ok_G2 = ok_g2, !.ok_G = ok_g]
    IN
    IF ok_d = "raise" THEN [r89 EXCEPT !.at = "raise90"]
    ELSE [r89 EXCEPT !.ok_D = ok_d, !.match = MatchOf(ok_g1, ok_g2, ok_g, ok_d),
                     !.at = "return"]

Raised(v) == v.at \notin {"call", "return"}

BlockFields == {"K1", "K2", "L1", "L2", "P1", "P2", "R1", "R2", "G1", "G2", "G", "D"}

(***************************************************************************)
(* Inputs of verify_block: every combination of these field values.  They  *)
(* hold the blocks of the end-to-end scenario, stated values on and just   *)
(* past the two tolerances (computed 100.1 and 100.1999 against stated     *)
(* 100; computed 0.1125 against stated 0.1145 and 0.1146), zero raw        *)
(* denominators, zero stated values, and g2_check = g1_check.              *)
(***************************************************************************)
K1s == {Zero, Rat(8, 10), Rat(1, 1)}
K2s == {Zero, Rat(79, 100), Rat(1001, 10)}
P1s == {Zero, Rat(1, 1)}
P2s == {Zero, Rat(11, 10)}
L1s == {Zero, Rat(5, 10), Rat(1, 1)}
L2s == {Zero, Rat(6, 10), Rat(1001, 10)}
R1s == {Zero, Rat(1, 1)}
R2s == {Zero, Rat(1, 1)}
G1s == {Zero, Rat(10875, 10000), Rat(20875, 10000), Rat(100, 1), Rat(1001, 10)}
G2s == {Zero, Rat(12, 10), Rat(22, 10), Rat(100, 1)}
Gs  == {Zero, Rat(1125, 10000), Rat(1145, 10000), Rat(1146, 10000), Rat(100, 1)}
Ds  == {Zero, Rat(9667, 1000), Rat(100, 1)}

GridBlocks ==
    [K1 : K1s, K2 : K2s, L1 : L1s, L2 : L2s, P1 : P1s, P2 : P2s,
     R1 : R1s, R2 : R2s, G1 : G1s, G2 : G2s, G : Gs, D : Ds]

\* Blocks whose recomputed G1, G2 or G is 100.1 (on the relative tolerance of a
\* stated 100), or 100.1999 or 100.2 (past it)
PastRel == {Rat(1001, 10), Rat(1001999, 10000), Rat(1002, 10)}

PastRelBlocks ==
    [K1 : {Rat(1, 1)}, K2 : {Zero} \cup PastRel, L1 : {Rat(1, 1)},
     L2 : {Zero} \cup PastRel, P1 : {Rat(1, 1)}, P2 : {Zero},
     R1 : {Rat(1, 1)}, R2 : {Zero, Rat(1, 1)},
     G1 : {Zero, Rat(100, 1)}, G2 : {Zero, Rat(100, 1)},
     G : {Zero, Rat(100, 1)}, D : {Zero, Rat(100, 1)}]

BlockInputs == GridBlocks \cup PastRelBlocks

\* The block of the end-to-end scenario
ScenarioBlock ==
    [K1 |-> Rat(8, 10), K2 |-> Rat(79, 100), P1 |-> Rat(1, 1), P2 |-> Rat(11, 10),
     L1 |-> Rat(5, 10), L2 |-> Rat(6, 10), R1 |-> Rat(1, 1), R2 |-> Rat(1, 1),
     G1 |-> Rat(10875, 10000), G2 |-> Rat(12, 10), G |-> Rat(1125, 10000),
     D |-> Rat(9667, 1000)]

(***************************************************************************)
(* parse_calculations.parse_float and parse_block                          *)
(*                                                                         *)
(* A token is what a group ([\d.,]+) of the patterns captured: a non-empty *)
(* tuple of the characters 0-9, '.' and ','.  A chunk is modelled by what  *)
(* the five re.search calls of parse_block find in its text: for each of   *)
(* the patterns K1/K2, L1/L2, P1/P2, R1/R2 and G1/G2/G/D either <<>> (no   *)
(* match) or the tuple of captured tokens.                                 *)
(***************************************************************************)
DigitSeq == <<"0", "1", "2", "3", "4", "5", "6", "7", "8", "9">>
IsDigit(c) == \E i \in 1..Len(DigitSeq) : DigitSeq[i] = c
DigitVal(c) == (CHOOSE i \in 1..Len(DigitSeq) : DigitSeq[i] = c) - 1

\* s.replace(",", ".")
ReplaceComma(s) == [i \in 1..Len(s) |-> IF s[i] = "," THEN "." ELSE s[i]]

CountDots(s) == Cardinality({i \in 1..Len(s) : s[i] = "."})
CountDigits(s) == Cardinality({i \in 1..Len(s) : IsDigit(s[i])})

\* float(s) accepts a string of digits and dots iff it has a digit and at most one dot
FloatAccepts(s) == CountDigits(s) >= 1 /\ CountDots(s) <= 1

RECURSIVE DigitsValue(_, _)
DigitsValue(s, acc) ==
    IF s = <<>> THEN acc
    ELSE DigitsValue(Tail(s), IF IsDigit(Head(s)) THEN 10 * acc + DigitVal(Head(s)) ELSE acc)

\* number of digits after the dot
FracDigits(s) ==
    IF CountDots(s) = 0 THEN 0
    ELSE LET dot == CHOOSE i \in 1..Len(s) : s[i] = "." IN Len(s) - dot

FloatValue(s) == Rat(DigitsValue(s, 0), Pow10(FracDigits(s)))

ValueError == <<0, -2>>

\* parse_float(s): the float, or ValueError when float() rejects the string
parse_float(s) ==
    LET t == ReplaceComma(s)
    IN  IF FloatAccepts(t) THEN FloatValue(t) ELSE ValueError

ParseNone  == [kind |-> "None"]
ParseRaise == [kind |-> "ValueError"]

\* parse_block(chunk): None at the first pattern that does not match, ValueError at
\* the first captured token float() rejects (the tokens of a pattern are parsed
\* before the next pattern is searched), else the twelve floats.
parse_block(chunk) ==
    LET P(t) == parse_float(t)
        Bad(ts) == \E i \in 1..Len(ts) : P(ts[i]) = ValueError
    IN
    IF chunk.KK = <<>> THEN ParseNone
    ELSE IF Bad(chunk.KK) THEN ParseRaise
    ELSE IF chunk.LL = <<>> THEN ParseNone
    ELSE IF Bad(chunk.LL) THEN ParseRaise
    ELSE IF chunk.PP = <<>> THEN ParseNone
    ELSE IF Bad(chunk.PP) THEN ParseRaise
    ELSE IF chunk.RR = <<>> THEN ParseNone
    ELSE IF Bad(chunk.RR) THEN ParseRaise
    ELSE IF chunk.GG = <<>> THEN ParseNone
    ELSE IF Bad(chunk.GG) THEN ParseRaise
    ELSE [kind |-> "block",
          b |-> [K1 |-> P(chunk.KK[1]), K2 |-> P(chunk.KK[2]),
                 L1 |-> P(chunk.LL[1]), L2 |-> P(chunk.LL[2]),
                 P1 |-> P(chunk.PP[1]), P2 |-> P(chunk.PP[2]),
                 R1 |-> P(chunk.RR[1]), R2 |-> P(chunk.RR[2]),
                 G1 |-> P(chunk.GG[1]), G2 |-> P(chunk.GG[2]),
                 G |-> P(chunk.GG[3]), D |-> P(chunk.GG[4])]]

(***************************************************************************)
(* Chunks given to the extractor                                           *)
(***************************************************************************)
T0      == <<"0">>
T1      == <<"1", ".", "0">>
T08     == <<"0", ".", "8">>
T079    == <<"0", ",", "7", "9">>          \* decimal comma
T11     == <<"1", ".", "1">>
T05     == <<"0", ".", "5">>
T06     == <<"0", ".", "6">>
T10875  == <<"1", ".", "0", "8", "7", "5">>
T20875  == <<"2", ",", "0", "8", "7", "5">>
T12     == <<"1", ".", "2">>
T22     == <<"2", ".", "2">>
T01125  == <<"0", ".", "1", "1", "2", "5">>
T9667   == <<"9", ".", "6", "6", "7">>
T18556  == <<"1", "8", ".", "5", "5", "6">>
TBad123 == <<"1", ".", "2", ".", "3">>     \* '1.2.3'
TBadTh  == <<"1", ",", "2", "3", "4", ".", "5">>  \* '1,234.5'
TBadDot == <<".">>                         \* '.'

\* a chunk whose stated values agree with the recomputed ones
GoodChunk ==
    [KK |-> <<T08, T079>>, LL |-> <<T05, T06>>, PP |-> <<T1, T11>>,
     RR |-> <<T1, T1>>, GG |-> <<T20875, T22, T01125, T18556>>]

NoFields == [KK |-> <<>>, LL |-> <<>>, PP |-> <<>>, RR |-> <<>>, GG |-> <<>>]

ChunkSet ==
    { GoodChunk,
      \* the end-to-end scenario's stated values (G1, G2 do not agree)
      [GoodChunk EXCEPT !.GG = <<T10875, T12, T01125, T9667>>],
      \* other raw values, all four checks agree
      [GoodChunk EXCEPT !.KK = <<T1, T1>>, !.LL = <<T1, T12>>, !.PP = <<T1, T0>>,
                        !.GG = <<T1, T22, T12, <<"0", ".", "8", "3", "3">>>>],
      \* a header or page break: no field at all
      NoFields,
      \* field pairs missing
      [GoodChunk EXCEPT !.GG = <<>>],
      [GoodChunk EXCEPT !.PP = <<>>],
      \* tokens float() rejects
      [GoodChunk EXCEPT !.KK = <<TBad123, T079>>],
      [GoodChunk EXCEPT !.RR = <<T1, TBadTh>>],
      [GoodChunk EXCEPT !.GG = <<T20875, T22, T01125, TBadDot>>],
      \* a token float() rejects before a missing pattern
      [NoFields EXCEPT !.KK = <<T08, TBadDot>>],
      \* zero values
      [GoodChunk EXCEPT !.KK = <<T0, T079>>],
      [GoodChunk EXCEPT !.GG = <<T20875, T22, T0, T18556>>],
      [GoodChunk EXCEPT !.GG = <<T20875, T22, T01125, T0>>],
      [GoodChunk EXCEPT !.KK = <<T1, T0>>, !.LL = <<T1, T0>>, !.PP = <<T1, T0>>,
                        !.RR = <<T1, T0>>, !.GG = <<T0, T0, T0, T0>>] }

\* parse_block and verify_block of every chunk in ChunkSet, evaluated once
Parsed == [c \in ChunkSet |-> parse_block(c)]
Verified ==
    [c \in ChunkSet |-> IF Parsed[c].kind = "block" THEN verify_block(Parsed[c].b)
                        ELSE VUnset]

MaxChunks == 3

ChunkSeqs == UNION {[1..n -> ChunkSet] : n \in 1..MaxChunks}

(***************************************************************************)
(* parse_calculations.main, lines 102-125                                  *)
(***************************************************************************)
NoFile == [written |-> FALSE, blocks |-> <<>>, errors |-> <<>>, total_blocks |-> 0]

\* mutant of BlockEntry: block_index taken from the position of the chunk
BlockEntry_chunkpos(n, b, v) ==
    [block_index |-> ci + 1,
     K1 |-> b.K1, K2 |-> b.K2, L1 |-> b.L1, L2 |-> b.L2,
     P1 |-> b.P1, P2 |-> b.P2, R1 |-> b.R1, R2 |-> b.R2,
     G1 |-> b.G1, G2 |-> b.G2, G |-> b.G, D |-> b.D,
     G1_check |-> v.G1_check, G2_check |-> v.G2_check,
     G_check |-> v.G_check, D_check |-> v.D_check,
     ok_G1 |-> v.ok_G1, ok_G2 |-> v.ok_G2, ok_G |-> v.ok_G, ok_D |-> v.ok_D,
     match |-> v.match]

\* lines 109-113: {"block_index": len(blocks) + 1, **b, **v}
BlockEntry(n, b, v) ==
    [block_index |-> n,
     K1 |-> b.K1, K2 |-> b.K2, L1 |-> b.L1, L2 |-> b.L2,
     P1 |-> b.P1, P2 |-> b.P2, R1 |-> b.R1, R2 |-> b.R2,
     G1 |-> b.G1, G2 |-> b.G2, G |-> b.G, D |-> b.D,
     G1_check |-> v.G1_check, G2_check |-> v.G2_check,
     G_check |-> v.G_check, D_check |-> v.D_check,
     ok_G1 |-> v.ok_G1, ok_G2 |-> v.ok_G2, ok_G |-> v.ok_G, ok_D |-> v.ok_D,
     match |-> v.match]

\* mutant of ErrorEntry: the stated and the computed values exchanged
ErrorEntry_swapped(n, b, v) ==
    [block |-> n,
     stated |-> [G1 |-> v.G1_check, G2 |-> v.G2_check,
                 G |-> v.G_check, D |-> v.D_check],
     computed |-> [G1 |-> b.G1, G2 |-> b.G2, G |-> b.G, D |-> b.D]]

\* lines 115-122
ErrorEntry(n, b, v) ==
    [block |-> n,
     stated |-> [G1 |-> b.G1, G2 |-> b.G2, G |-> b.G, D |-> b.D],
     computed |-> [G1 |-> v.G1_check, G2 |-> v.G2_check,
                   G |-> v.G_check, D |-> v.D_check]]

(***************************************************************************)
(* Idle values of the variables a specification does not use               *)
(***************************************************************************)
IdleMain  == chunks = <<>> /\ ci = 0 /\ blocks = <<>> /\ errors = <<>>
             /\ pc = "idle" /\ out = NoFile
IdleVer   == vb = ScenarioBlock /\ vres = VUnset /\ vpc = "idle"
IdleFind  == fblocks = <<>> /\ fq = <<Zero, Zero>> /\ fres = <<>> /\ fpc = "idle"
IdleMatch == calc_blocks = <<>> /\ graphs = <<>> /\ rows = <<>> /\ mtrace = <<>>
             /\ mpc = "idle"
IdleAdeq  == a_blocks = <<>> /\ a_graphs = <<>> /\ a_rows = <<>> /\ a_trace = <<>>
             /\ note_counts = <<>> /\ apc = "idle"
IdleStats == D_values = <<>> /\ di = 0 /\ hist = <<>> /\ hinc = <<>> /\ spc = "idle"
IdleBatch == pages_dir = FALSE /\ images = {} /\ out_files = <<>> /\ run = 0
             /\ force = FALSE /\ page_numbers = <<>> /\ bi = 0
             /\ api_calls = <<>> /\ blog = <<>> /\ bpc = "idle"
IdleMerge == dir_without = <<>> /\ dir_coverage = <<>> /\ m_pages = <<>> /\ mi = 0
             /\ merged = <<>> /\ mgpc = "idle"
IdleSumm  == pages_data = <<>> /\ s_blocks = <<>> /\ spi = 0 /\ s_graphs = <<>>
             /\ sbi = 0 /\ details = <<>> /\ smpc = "idle"
IdleLate  == IdleMerge /\ IdleSumm
IdleRest  == IdleAdeq /\ IdleStats /\ IdleBatch /\ IdleLate

(***************************************************************************)
(* Spec: the run of parse_calculations.main over the chunks of one text    *)
(***************************************************************************)
Init ==
    /\ chunks \in ChunkSeqs
    /\ ci = 0 /\ blocks = <<>> /\ errors = <<>> /\ pc = "loop" /\ out = NoFile
    /\ IdleVer /\ IdleFind /\ IdleMatch /\ IdleRest

\* line 105-107: parse_block returned None
SkipChunk ==
    /\ pc = "loop" /\ ci < Len(chunks)
    /\ Parsed[chunks[ci + 1]].kind = "None"
    /\ ci' = ci + 1
    /\ UNCHANGED <<chunks, blocks, errors, pc, out, verVars, findVars, matchVars, restVars>>

\* line 105: parse_float raised ValueError inside parse_block; main does not catch it
ParseRaises ==
    /\ pc = "loop" /\ ci < Len(chunks)
    /\ Parsed[chunks[ci + 1]].kind = "ValueError"
    /\ pc' = "raisedValueError"
    /\ UNCHANGED <<chunks, ci, blocks, errors, out, verVars, findVars, matchVars, restVars>>

\* line 108: verify_block raised ZeroDivisionError; main does not catch it
VerifyRaises ==
    /\ pc = "loop" /\ ci < Len(chunks)
    /\ Parsed[chunks[ci + 1]].kind = "block"
    /\ Raised(Verified[chunks[ci + 1]])
    /\ pc' = "raisedZeroDivision"
    /\ UNCHANGED <<chunks, ci, blocks, errors, out, verVars, findVars, matchVars, restVars>>

\* lines 105-122: a block is parsed, verified and appended
EmitBlock ==
    /\ pc = "loop" /\ ci < Len(chunks)
    /\ Parsed[chunks[ci + 1]].kind = "block"
    /\ LET b == Parsed[chunks[ci + 1]].b
           v == Verified[chunks[ci + 1]]
           n == Len(blocks) + 1
       IN  /\ ~Raised(v)
           /\ blocks' = Append(blocks, BlockEntry(n, b, v))
           /\ errors' = IF ~Truthy(v.match)
                        THEN Append(errors, ErrorEntry(n, b, v))
                        ELSE errors
    /\ ci' = ci + 1
    /\ UNCHANGED <<chunks, pc, out, verVars, findVars, matchVars, restVars>>

\* lines 124-125: the loop is over, calculations_verified.json is written
WriteOut ==
    /\ pc = "loop" /\ ci = Len(chunks)
    /\ out' = [written |-> TRUE, blocks |-> blocks, errors |-> errors,
               total_blocks |-> Len(blocks)]
    /\ pc' = "done"
    /\ UNCHANGED <<chunks, ci, blocks, errors, verVars, findVars, matchVars, restVars>>

Next == SkipChunk \/ ParseRaises \/ VerifyRaises \/ EmitBlock \/ WriteOut

Spec == Init /\ [][Next]_vars

(***************************************************************************)
(* SpecVerify: verify_block applied to one block                           *)
(***************************************************************************)
InitVerify ==
    /\ vb \in BlockInputs /\ vres = VUnset /\ vpc = "call"
    /\ IdleMain /\ IdleFind /\ IdleMatch /\ IdleRest

VerifyCall ==
    /\ vpc = "call"
    /\ vres' = verify_block(vb)
    /\ vpc' = "done"
    /\ UNCHANGED <<vb, mainVars, findVars, matchVars, restVars>>

NextVerify == VerifyCall

SpecVerify == InitVerify /\ [][NextVerify]_vars

(***************************************************************************)
(* analyze_merged_graphics: the matcher                                    *)
(*                                                                         *)
(* A block of calculations_verified.json is modelled by the fields the     *)
(* script reads: block_index, K1, K2, L1, L2, G1, G2, G, D.  The notes of  *)
(* the report are written in Latin letters: "net K/Pr" for 'нет K/Pr',     *)
(* "net bloka" for 'нет блока', "po K1,K2" for 'по K1,K2' and "po L1,L2"   *)
(* for 'по L1,L2'.                                                         *)
(***************************************************************************)
\* line 22-23
block_index_from_page_graph(page, graph_id) == (page - 1) * 2 + graph_id

\* line 27
K_MATCH_TOLERANCE == Rat(1, 1000)
\* line 44, the default of `tolerance`
L_MATCH_TOLERANCE == Rat(2, 100)

\* Python's None where a block is expected
NoBlock ==
    [block_index |-> 0, K1 |-> PyNone, K2 |-> PyNone, L1 |-> PyNone, L2 |-> PyNone,
     G1 |-> PyNone, G2 |-> PyNone, G |-> PyNone, D |-> PyNone]

\* lines 32-33, 46-47: best_block = None, best_dist = float("inf")
NoBest == [block |-> NoBlock, dist |-> Zero, inf |-> TRUE]

\* mutant of BelowBest: a block at the same distance replaces the current best
BelowBest_or_equal(d, best) == best.inf \/ RLeq(d, best.dist)

\* d < best_dist, where best_dist starts as float("inf")
BelowBest(d, best) == best.inf \/ RLt(d, best.dist)

\* lines 34-38: the for loop of find_block_by_k1_k2, from block i on
RECURSIVE ScanK(_, _, _, _, _)
ScanK(bs, i, K1, K2, best) ==
    IF i > Len(bs) THEN best
    ELSE LET d == RAdd(RAbs(RSub(bs[i].K1, K1)), RAbs(RSub(bs[i].K2, K2)))
         IN  ScanK(bs, i + 1, K1, K2,
                   IF BelowBest(d, best)
                   THEN [block |-> bs[i], dist |-> d, inf |-> FALSE]
                   ELSE best)

\* mutant of find_block_by_k1_k2: the best block is returned whatever its distance
find_block_by_k1_k2_unbounded(bs, K1, K2) == ScanK(bs, 1, K1, K2, NoBest).block

\* lines 30-41
find_block_by_k1_k2(bs, K1, K2) ==
    LET best == ScanK(bs, 1, K1, K2, NoBest)
    IN  IF best.block # NoBlock /\ ~best.inf /\ RLeq(best.dist, K_MATCH_TOLERANCE)
        THEN best.block
        ELSE NoBlock

\* lines 48-52: the for loop of find_block_by_l1_l2, from block i on
RECURSIVE ScanL(_, _, _, _, _)
ScanL(bs, i, L1, L2, best) ==
    IF i > Len(bs) THEN best
    ELSE LET d == RAdd(RAbs(RSub(bs[i].L1, L1)), RAbs(RSub(bs[i].L2, L2)))
         IN  ScanL(bs, i + 1, L1, L2,
                   IF BelowBest(d, best)
                   THEN [block |-> bs[i], dist |-> d, inf |-> FALSE]
                   ELSE best)

\* lines 44-55
find_block_by_l1_l2(bs, L1, L2, tolerance) ==
    LET best == ScanL(bs, 1, L1, L2, NoBest)
    IN  IF best.block # NoBlock /\ ~best.inf /\ RLeq(best.dist, tolerance)
        THEN best.block
        ELSE NoBlock

\* line 63 and 111: blocks_by_idx = {b["block_index"]: b ...}; blocks_by_idx.get(bidx)
\* (a later block replaces an earlier one stored under the same key)
blocks_by_idx_get(bs, bidx) ==
    LET hits == {i \in 1..Len(bs) : bs[i].block_index = bidx}
    IN  IF hits = {} THEN NoBlock
        ELSE bs[CHOOSE i \in hits : \A j \in hits : j <= i]

(***************************************************************************)
(* Blocks and queries of the matcher                                       *)
(***************************************************************************)
\* the values of a block without its index
BlockBody(K1, K2, L1, L2, G) ==
    [K1 |-> K1, K2 |-> K2, L1 |-> L1, L2 |-> L2,
     G1 |-> Rat(20875, 10000), G2 |-> Rat(22, 10), G |-> G, D |-> Rat(18556, 1000)]

GPos == Rat(1125, 10000)

BlockBodies ==
    { \* equal to the query (0.8, 0.79) on K
      BlockBody(Rat(8, 10), Rat(79, 100), Rat(5, 10), Rat(6, 10), GPos),
      \* K distance 0.0001
      BlockBody(Rat(8001, 10000), Rat(79, 100), Rat(5, 10), Rat(6, 10), GPos),
      \* K distance 0.5, L equal to the query's K
      BlockBody(Rat(13, 10), Rat(79, 100), Rat(8, 10), Rat(79, 100), GPos),
      \* K distance 0.01, L equal to the query's K
      BlockBody(Rat(81, 100), Rat(79, 100), Rat(8, 10), Rat(79, 100), Zero),
      \* K distance 0.01, L far from the query's K
      BlockBody(Rat(8, 10), Rat(80, 100), Rat(5, 10), Rat(6, 10), GPos),
      \* K distance 0.001 = 0.0005 + 0.0005, L distance 0.02 = 0.01 + 0.01
      BlockBody(Rat(8005, 10000), Rat(7905, 10000), Rat(81, 100), Rat(80, 100), GPos),
      \* K distance 0.0015, L distance 0.025
      BlockBody(Rat(801, 1000), Rat(7905, 10000), Rat(81, 100), Rat(805, 1000), GPos) }

\* calc["blocks"] as parse_calculations writes it: the k-th block has block_index k
Indexed(bodies) ==
    [k \in 1..Len(bodies) |->
        [block_index |-> k,
         K1 |-> bodies[k].K1, K2 |-> bodies[k].K2,
         L1 |-> bodies[k].L1, L2 |-> bodies[k].L2,
         G1 |-> bodies[k].G1, G2 |-> bodies[k].G2,
         G |-> bodies[k].G, D |-> bodies[k].D]]

MaxBlocks == 3

BlockLists == {Indexed(bb) : bb \in UNION {[1..n -> BlockBodies] : n \in 0..MaxBlocks}}

QueryK1 == {Rat(8, 10), Rat(5, 10)}
QueryK2 == {Rat(79, 100), Rat(6, 10)}

(***************************************************************************)
(* SpecFind: the two nearest-neighbour searches applied to one query       *)
(***************************************************************************)
NoFind == [k |-> NoBlock, l |-> NoBlock]

InitFind ==
    /\ fblocks \in BlockLists /\ fq \in QueryK1 \X QueryK2
    /\ fres = NoFind /\ fpc = "call"
    /\ IdleMain /\ IdleVer /\ IdleMatch /\ IdleRest

FindCall ==
    /\ fpc = "call"
    /\ fres' = [k |-> find_block_by_k1_k2(fblocks, fq[1], fq[2]),
                l |-> find_block_by_l1_l2(fblocks, fq[1], fq[2], L_MATCH_TOLERANCE)]
    /\ fpc' = "done"
    /\ UNCHANGED <<fblocks, fq, mainVars, verVars, matchVars, restVars>>

NextFind == FindCall

SpecFind == InitFind /\ [][NextFind]_vars

(***************************************************************************)
(* analyze_merged_graphics.main, lines 88-138                              *)
(*                                                                         *)
(* A graph record of graphics_merged.json is modelled by what the loop     *)
(* reads: page, graph_id, whether with_coverage is present, and the        *)
(* crystallinity index and proton density of both coverage conditions      *)
(* (K1, Pr1 without coverage; K2, Pr2 with coverage), each a number or     *)
(* None.                                                                   *)
(***************************************************************************)
NOTE_NO_KPR   == "net K/Pr"
NOTE_NO_BLOCK == "net bloka"
NOTE_BY_K     == "po K1,K2"
NOTE_BY_L     == "po L1,L2"
NOTE_BY_INDEX == ""

\* line 105
MissingKPr(g) ==
    IsNone(g.K1) \/ IsNone(g.Pr1) \/ IsNone(g.K2) \/ IsNone(g.Pr2) \/ IsZero(g.Pr1)

\* what lines 110-119 did for one record; ran = FALSE when they were not reached.
\* slot is blocks_by_idx.get(bidx); called_k and called_l tell whether
\* find_block_by_k1_k2 and find_block_by_l1_l2 were called; distances counts the
\* executions of lines 35 and 49; block is the local `block` at line 121; row is the
\* position of the record's row in `rows` (0: no row).
NoChain ==
    [ran |-> FALSE, bidx |-> 0, slot |-> NoBlock, called_k |-> FALSE,
     called_l |-> FALSE, matched_by_k |-> FALSE, matched_by_l |-> FALSE,
     distances |-> 0, block |-> NoBlock, row |-> 0]

\* mutant of Chain: the nearest neighbour on (K1, K2) is tried before the
\* positional slot
Chain_nearest_first(bs, g) ==
    LET bidx == block_index_from_page_graph(g.page, g.graph_id)
        byk  == find_block_by_k1_k2(bs, g.K1, g.K2)
        slot == blocks_by_idx_get(bs, bidx)
        call_l == byk = NoBlock /\ slot = NoBlock
        byl  == IF call_l THEN find_block_by_l1_l2(bs, g.K1, g.K2, L_MATCH_TOLERANCE)
                ELSE NoBlock
    IN  [ran |-> TRUE, bidx |-> bidx, slot |-> slot,
         called_k |-> TRUE, called_l |-> call_l,
         matched_by_k |-> byk # NoBlock, matched_by_l |-> byl # NoBlock,
         distances |-> Len(bs) + (IF call_l THEN Len(bs) ELSE 0),
         block |-> IF byk # NoBlock THEN byk ELSE IF slot # NoBlock THEN slot ELSE byl,
         row |-> 0]

\* lines 110-119: the positional slot, then the nearest neighbour on (K1, K2), then
\* the nearest neighbour on (L1, L2), which is given the record's K1 and K2
Chain(bs, g) ==
    LET bidx == block_index_from_page_graph(g.page, g.graph_id)
        slot == blocks_by_idx_get(bs, bidx)
        call_k == slot = NoBlock
        byk  == IF call_k THEN find_block_by_k1_k2(bs, g.K1, g.K2) ELSE slot
        call_l == byk = NoBlock
        byl  == IF call_l THEN find_block_by_l1_l2(bs, g.K1, g.K2, L_MATCH_TOLERANCE)
                ELSE byk
    IN  [ran |-> TRUE, bidx |-> bidx, slot |-> slot,
         called_k |-> call_k, called_l |-> call_l,
         matched_by_k |-> call_k /\ byk # NoBlock,
         matched_by_l |-> call_l /\ byl # NoBlock,
         distances |-> (IF call_k THEN Len(bs) ELSE 0) + (IF call_l THEN Len(bs) ELSE 0),
         block |-> byl, row |-> 0]

\* mutant of NoteOf: a block found by find_block_by_k1_k2 is tagged as found by
\* find_block_by_l1_l2
NoteOf_k_as_l(ch) ==
    IF ch.block = NoBlock THEN NOTE_NO_BLOCK
    ELSE IF ch.matched_by_k \/ ch.matched_by_l THEN NOTE_BY_L
    ELSE NOTE_BY_INDEX

\* lines 130-136
NoteOf(ch) ==
    IF ch.block = NoBlock THEN NOTE_NO_BLOCK
    ELSE IF ch.matched_by_k THEN NOTE_BY_K
    ELSE IF ch.matched_by_l THEN NOTE_BY_L
    ELSE NOTE_BY_INDEX

\* line 106
RowNoKPrOf(g) ==
    [page |-> g.page, graph_id |-> g.graph_id, K1 |-> g.K1, K2 |-> g.K2,
     Pr1 |-> g.Pr1, Pr2 |-> g.Pr2, G1_merged |-> PyNone, G1_pdf |-> PyNone,
     G2_pdf |-> PyNone, D_met |-> PyNone, D_calc |-> PyNone, D_pdf |-> PyNone,
     note |-> NOTE_NO_KPR]

\* lines 109, 120-138
RowOf(g, ch) ==
    LET blk == ch.block
        has == blk # NoBlock
        gpos == has /\ RLt(Zero, blk.G)
    IN  [page |-> g.page, graph_id |-> g.graph_id, K1 |-> g.K1, K2 |-> g.K2,
         Pr1 |-> g.Pr1, Pr2 |-> g.Pr2,
         G1_merged |-> RAdd(RDiv(g.K2, g.K1), RDiv(g.Pr2, g.Pr1)),
         G1_pdf |-> IF has THEN blk.G1 ELSE PyNone,
         G2_pdf |-> IF has THEN blk.G2 ELSE PyNone,
         D_met |-> IF gpos THEN RDiv(RSub(blk.G2, Rat(2, 1)), blk.G) ELSE PyNone,
         D_calc |-> IF gpos THEN RDiv(blk.G1, blk.G) ELSE PyNone,
         D_pdf |-> IF has THEN blk.D ELSE PyNone,
         note |-> NoteOf(ch)]

MatchBodies ==
    { BlockBody(Rat(8001, 10000), Rat(79, 100), Rat(5, 10), Rat(6, 10), GPos),
      BlockBody(Rat(13, 10), Rat(79, 100), Rat(8, 10), Rat(79, 100), GPos),
      BlockBody(Rat(81, 100), Rat(79, 100), Rat(8, 10), Rat(79, 100), Zero),
      BlockBody(Rat(8, 10), Rat(80, 100), Rat(5, 10), Rat(6, 10), GPos) }

MaxCalcBlocks == 2

CalcBlockLists ==
    {Indexed(bb) : bb \in UNION {[1..n -> MatchBodies] : n \in 0..MaxCalcBlocks}}

\* (page, graph_id) of a record; graph_id is whatever the page file of the vision
\* batch holds (merge_graphics_llm, line 106), 0 for a graph numbered from 0
PageGraphs == {<<1, 0>>, <<1, 1>>, <<1, 2>>, <<2, 1>>}

\* The metrics of one record.  L1 and L2 stand for a secondary ratio pair stored
\* with the record; the loop of main reads page, graph_id, with_coverage and the
\* four header metrics only (lines 92-103), so a pair stored with the record is
\* never looked at.
Metrics ==
    { [has_cov |-> TRUE, K1 |-> Rat(8, 10), K2 |-> Rat(79, 100),
       Pr1 |-> Rat(1, 1), Pr2 |-> Rat(11, 10), L1 |-> PyNone, L2 |-> PyNone],
      [has_cov |-> TRUE, K1 |-> Rat(8, 10), K2 |-> Rat(79, 100),
       Pr1 |-> Rat(1, 1), Pr2 |-> Rat(11, 10), L1 |-> Rat(5, 10), L2 |-> Rat(6, 10)],
      [has_cov |-> FALSE, K1 |-> Rat(8, 10), K2 |-> PyNone,
       Pr1 |-> Rat(1, 1), Pr2 |-> PyNone, L1 |-> PyNone, L2 |-> PyNone],
      [has_cov |-> TRUE, K1 |-> Rat(8, 10), K2 |-> Rat(79, 100),
       Pr1 |-> PyNone, Pr2 |-> Rat(11, 10), L1 |-> PyNone, L2 |-> PyNone],
      [has_cov |-> TRUE, K1 |-> Rat(8, 10), K2 |-> Rat(79, 100),
       Pr1 |-> Zero, Pr2 |-> Rat(11, 10), L1 |-> PyNone, L2 |-> PyNone],
      [has_cov |-> TRUE, K1 |-> Zero, K2 |-> Rat(79, 100),
       Pr1 |-> Rat(1, 1), Pr2 |-> Rat(11, 10), L1 |-> PyNone, L2 |-> PyNone] }

GraphSet ==
    { [page |-> pg[1], graph_id |-> pg[2], has_cov |-> m.has_cov,
       K1 |-> m.K1, K2 |-> m.K2, Pr1 |-> m.Pr1, Pr2 |-> m.Pr2,
       L1 |-> m.L1, L2 |-> m.L2] :
      pg \in PageGraphs, m \in Metrics }

MaxGraphs == 2

InitMatch ==
    /\ calc_blocks \in CalcBlockLists
    /\ graphs = <<>> /\ rows = <<>> /\ mtrace = <<>> /\ mpc = "loop"
    /\ IdleMain /\ IdleVer /\ IdleFind /\ IdleRest

\* lines 92-93: with_coverage is None, the record is passed over
SkipNoCoverage ==
    /\ mpc = "loop" /\ Len(graphs) < MaxGraphs
    /\ \E g \in GraphSet :
          /\ ~g.has_cov
          /\ graphs' = Append(graphs, g)
          /\ mtrace' = Append(mtrace, NoChain)
    /\ UNCHANGED <<calc_blocks, rows, mpc, mainVars, verVars, findVars, restVars>>

\* lines 105-107
RowNoKPr ==
    /\ mpc = "loop" /\ Len(graphs) < MaxGraphs
    /\ \E g \in GraphSet :
          /\ g.has_cov /\ MissingKPr(g)
          /\ graphs' = Append(graphs, g)
          /\ mtrace' = Append(mtrace, [NoChain EXCEPT !.row = Len(rows) + 1])
          /\ rows' = Append(rows, RowNoKPrOf(g))
    /\ UNCHANGED <<calc_blocks, mpc, mainVars, verVars, findVars, restVars>>

\* line 109: K2 / K1 with K1 = 0 raises ZeroDivisionError; main does not catch it
MergedRaises ==
    /\ mpc = "loop" /\ Len(graphs) < MaxGraphs
    /\ \E g \in GraphSet :
          /\ g.has_cov /\ ~MissingKPr(g) /\ IsZero(g.K1)
          /\ graphs' = Append(graphs, g)
          /\ mtrace' = Append(mtrace, NoChain)
    /\ mpc' = "raised"
    /\ UNCHANGED <<calc_blocks, rows, mainVars, verVars, findVars, restVars>>

\* lines 109-138: the matcher chain runs and the row is appended
MatchRow ==
    /\ mpc = "loop" /\ Len(graphs) < MaxGraphs
    /\ \E g \in GraphSet :
          /\ g.has_cov /\ ~MissingKPr(g) /\ ~IsZero(g.K1)
          /\ LET ch == Chain(calc_blocks, g)
             IN  /\ graphs' = Append(graphs, g)
                 /\ mtrace' = Append(mtrace, [ch EXCEPT !.row = Len(rows) + 1])
                 /\ rows' = Append(rows, RowOf(g, ch))
    /\ UNCHANGED <<calc_blocks, mpc, mainVars, verVars, findVars, restVars>>

NextMatch == SkipNoCoverage \/ RowNoKPr \/ MergedRaises \/ MatchRow

SpecMatch == InitMatch /\ [][NextMatch]_vars

(***************************************************************************)
(* analyze_report_adequacy: load_and_build_rows (lines 27-94) and the      *)
(* note counts of main (lines 106-108).  The three matcher functions are   *)
(* imported from analyze_merged_graphics (lines 20-24) and lines 54-63     *)
(* repeat the chain of analyze_merged_graphics.main, so Chain is used for  *)
(* both.                                                                   *)
(***************************************************************************)
\* line 108: the key under which a row with the empty note is counted
NOTE_KEY_BY_INDEX == "po indeksu"

\* line 84: bidx <= num_blocks and block is blocks_by_idx.get(bidx)
by_index_of(bs, ch) == ch.bidx <= Len(bs) /\ ch.block = ch.slot

\* lines 53, 65-93
AdeqRowOf(bs, g, ch) ==
    LET blk == ch.block
        has == blk # NoBlock
        gpos == has /\ RLt(Zero, blk.G)
    IN  [page |-> g.page, graph_id |-> g.graph_id, K1 |-> g.K1, K2 |-> g.K2,
         Pr1 |-> g.Pr1, Pr2 |-> g.Pr2,
         G1_merged |-> RAdd(RDiv(g.K2, g.K1), RDiv(g.Pr2, g.Pr1)),
         G1_pdf |-> IF has THEN blk.G1 ELSE PyNone,
         G2_pdf |-> IF has THEN blk.G2 ELSE PyNone,
         D_met |-> IF gpos THEN RDiv(RSub(blk.G2, Rat(2, 1)), blk.G) ELSE PyNone,
         D_calc |-> IF gpos THEN RDiv(blk.G1, blk.G) ELSE PyNone,
         D_pdf |-> IF has THEN blk.D ELSE PyNone,
         note |-> NoteOf(ch),
         by_index |-> by_index_of(bs, ch)]

\* line 108: r["note"] or "po indeksu"
NoteKey(note) == IF note = "" THEN NOTE_KEY_BY_INDEX ELSE note

\* lines 106-108
NoteCountsOf(rs) ==
    [k \in {NoteKey(rs[i].note) : i \in 1..Len(rs)} |->
        Cardinality({i \in 1..Len(rs) : NoteKey(rs[i].note) = k})]

InitAdeq ==
    /\ a_blocks \in CalcBlockLists
    /\ a_graphs = <<>> /\ a_rows = <<>> /\ a_trace = <<>>
    /\ note_counts = <<>> /\ apc = "loop"
    /\ IdleMain /\ IdleVer /\ IdleFind /\ IdleMatch /\ IdleLate /\ IdleStats /\ IdleBatch

\* lines 38-39: with_coverage is None, the record is passed over
AdeqSkipNoCoverage ==
    /\ apc = "loop" /\ Len(a_graphs) < MaxGraphs
    /\ \E g \in GraphSet :
          /\ ~g.has_cov
          /\ a_graphs' = Append(a_graphs, g)
          /\ a_trace' = Append(a_trace, NoChain)
    /\ UNCHANGED <<a_blocks, a_rows, note_counts, apc,
                   mainVars, verVars, findVars, matchVars, lateVars, statsVars, batchVars>>

\* lines 50-51: a metric is missing or Pr1 == 0, the record is passed over
AdeqSkipNoKPr ==
    /\ apc = "loop" /\ Len(a_graphs) < MaxGraphs
    /\ \E g \in GraphSet :
          /\ g.has_cov /\ MissingKPr(g)
          /\ a_graphs' = Append(a_graphs, g)
          /\ a_trace' = Append(a_trace, NoChain)
    /\ UNCHANGED <<a_blocks, a_rows, note_counts, apc,
                   mainVars, verVars, findVars, matchVars, lateVars, statsVars, batchVars>>

\* line 53: K2 / K1 with K1 = 0 raises ZeroDivisionError; nothing catches it
AdeqRaises ==
    /\ apc = "loop" /\ Len(a_graphs) < MaxGraphs
    /\ \E g \in GraphSet :
          /\ g.has_cov /\ ~MissingKPr(g) /\ IsZero(g.K1)
          /\ a_graphs' = Append(a_graphs, g)
          /\ a_trace' = Append(a_trace, NoChain)
    /\ apc' = "raised"
    /\ UNCHANGED <<a_blocks, a_rows, note_counts,
                   mainVars, verVars, findVars, matchVars, lateVars, statsVars, batchVars>>

\* lines 53-93: the matcher chain runs and the row is appended
AdeqRow ==
    /\ apc = "loop" /\ Len(a_graphs) < MaxGraphs
    /\ \E g \in GraphSet :
          /\ g.has_cov /\ ~MissingKPr(g) /\ ~IsZero(g.K1)
          /\ LET ch == Chain(a_blocks, g)
             IN  /\ a_graphs' = Append(a_graphs, g)
                 /\ a_trace' = Append(a_trace, [ch EXCEPT !.row = Len(a_rows) + 1])
                 /\ a_rows' = Append(a_rows, AdeqRowOf(a_blocks, g, ch))
    /\ UNCHANGED <<a_blocks, note_counts, apc,
                   mainVars, verVars, findVars, matchVars, lateVars, statsVars, batchVars>>

\* line 94: the records are exhausted, load_and_build_rows returns
AdeqReturn ==
    /\ apc = "loop"
    /\ apc' = "returned"
    /\ UNCHANGED <<a_blocks, a_graphs, a_rows, a_trace, note_counts,
                   mainVars, verVars, findVars, matchVars, lateVars, statsVars, batchVars>>

\* main, lines 106-108
AdeqCount ==
    /\ apc = "returned"
    /\ note_counts' = NoteCountsOf(a_rows)
    /\ apc' = "counted"
    /\ UNCHANGED <<a_blocks, a_graphs, a_rows, a_trace,
                   mainVars, verVars, findVars, matchVars, lateVars, statsVars, batchVars>>

NextAdeq ==
    \/ AdeqSkipNoCoverage \/ AdeqSkipNoKPr \/ AdeqRaises \/ AdeqRow
    \/ AdeqReturn \/ AdeqCount

SpecAdeq == InitAdeq /\ [][NextAdeq]_vars

(***************************************************************************)
(* stats_d.main, lines 19-47: the fixed-width histogram of the D values    *)
(***************************************************************************)
\* line 35: bins = [56.0, 56.25, ..., 58.0]
bins == [i \in 1..9 |-> Rat(5600 + 25 * (i - 1), 100)]

\* the bin numbers, range(len(bins) - 1) counted from 1; line 36 gives each a
\* key "lo-hi" and the keys are pairwise different
BinIds == 1..(Len(bins) - 1)

\* line 36
EmptyHist == [i \in BinIds |-> 0]

\* mutant of BinScan: the upper edge of a bin is inclusive
RECURSIVE BinScan_closed(_, _)
BinScan_closed(d, i) ==
    IF i \notin BinIds
    THEN IF RLeq(bins[Len(bins)], d) THEN <<Len(bins) - 1>> ELSE <<>>
    ELSE IF RLeq(bins[i], d) /\ RLeq(d, bins[i + 1]) THEN <<i>>
    ELSE BinScan_closed(d, i + 1)

\* lines 38-47 for one sample d, from bin i on: the bins whose count is
\* incremented.  The first bin with bins[i] <= d < bins[i+1] is incremented and
\* the loop breaks; when no bin took the sample (the for-else), the last bin is
\* incremented if d >= bins[-1] and nothing is incremented otherwise.
RECURSIVE BinScan(_, _)
BinScan(d, i) ==
    IF i \notin BinIds
    THEN IF RLeq(bins[Len(bins)], d) THEN <<Len(bins) - 1>> ELSE <<>>
    ELSE IF RLeq(bins[i], d) /\ RLt(d, bins[i + 1]) THEN <<i>>
    ELSE BinScan(d, i + 1)

\* hist[key] += 1 for every bin of incs
RECURSIVE Increment(_, _)
Increment(h, incs) ==
    IF incs = <<>> THEN h
    ELSE Increment([h EXCEPT ![Head(incs)] = @ + 1], Tail(incs))

\* D values of calculations_verified.json: parse_float results, never negative
DSamples ==
    { Rat(9667, 1000), Rat(5599, 100), Rat(56, 1), Rat(5625, 100),
      Rat(5742, 100), Rat(5799, 100), Rat(58, 1), Rat(60, 1) }

MaxSamples == 3

DLists == UNION {[1..n -> DSamples] : n \in 0..MaxSamples}

InitStats ==
    /\ D_values \in DLists
    /\ di = 0 /\ hist = <<>> /\ hinc = <<>> /\ spc = "start"
    /\ IdleMain /\ IdleVer /\ IdleFind /\ IdleMatch /\ IdleLate /\ IdleAdeq /\ IdleBatch

\* line 24: sum(D_values) / n with n = 0 raises ZeroDivisionError
StatsRaises ==
    /\ spc = "start" /\ Len(D_values) = 0
    /\ spc' = "raised"
    /\ UNCHANGED <<D_values, di, hist, hinc,
                   mainVars, verVars, findVars, matchVars, lateVars, adeqVars, batchVars>>

\* lines 24-36: the descriptive statistics, then the empty histogram
StatsBegin ==
    /\ spc = "start" /\ Len(D_values) > 0
    /\ hist' = EmptyHist
    /\ spc' = "hist"
    /\ UNCHANGED <<D_values, di, hinc,
                   mainVars, verVars, findVars, matchVars, lateVars, adeqVars, batchVars>>

\* lines 37-47: one sample
CountSample ==
    /\ spc = "hist" /\ di < Len(D_values)
    /\ LET incs == BinScan(D_values[di + 1], 1)
       IN  /\ hist' = Increment(hist, incs)
           /\ hinc' = Append(hinc, incs)
    /\ di' = di + 1
    /\ UNCHANGED <<D_values, spc,
                   mainVars, verVars, findVars, matchVars, lateVars, adeqVars, batchVars>>

\* the loop of line 37 is over
StatsDone ==
    /\ spc = "hist" /\ di = Len(D_values)
    /\ spc' = "done"
    /\ UNCHANGED <<D_values, di, hist, hinc,
                   mainVars, verVars, findVars, matchVars, lateVars, adeqVars, batchVars>>

NextStats == StatsRaises \/ StatsBegin \/ CountSample \/ StatsDone

SpecStats == InitStats /\ [][NextStats]_vars

(***************************************************************************)
(* analyze_graphics_llm.main, lines 137-199: the vision batch.             *)
(*                                                                         *)
(* ELIZA_TOKEN is set by the module itself (line 24), so the test of line  *)
(* 148 never succeeds.  The outcome of one call of call_vision_api and of  *)
(* the lines that read its answer (177-180) is one of                      *)
(*   "list"  the content parses as a JSON array (graphs is a list),        *)
(*   "null"  parse_response_json returns None,                             *)
(*   "raise" an Exception is raised in lines 177-189.                      *)
(* Writing a file of OUT_DIR is taken to succeed.                          *)
(***************************************************************************)
\* page_ppp.json does not exist
NoOutFile == [kind |-> "absent", page |-> 0, graphs |-> "absent", call |-> 0]

\* lines 181-189: the payload of a page; call is the number of the call of
\* call_vision_api that produced `content`, `graphs`, `model` and `usage`
Payload(page, graphs_kind, call) ==
    [kind |-> "payload", page |-> page, graphs |-> graphs_kind, call |-> call]

\* lines 193-195: the error marker {"page": page, "error": str(e)}
ErrorMarker(page, call) ==
    [kind |-> "error", page |-> page, graphs |-> "absent", call |-> call]

\* mutant of AlreadyProduced: an error marker does not count as an output file
AlreadyProduced_unless_marker(files, page, frc) ==
    files[page].kind = "payload" /\ ~frc

\* mutant of AlreadyProduced: args.force is not looked at
AlreadyProduced_ignores_force(files, page, frc) == files[page] # NoOutFile

\* line 168: out_file.exists() and not args.force
AlreadyProduced(files, page, frc) == files[page] # NoOutFile /\ ~frc

\* the page numbers of the model
BatchPages == {1, 2}

\* lines 157-162: page_numbers, from --pages (any list, repeats included)
PageLists == {<<>>, <<1>>, <<2>>, <<1, 2>>, <<2, 1>>, <<1, 1>>}

ApiOutcomes == {"list", "null", "raise"}

\* OUT_DIR before the first run: a page has no file or a payload of an earlier run
OutDirs == [BatchPages -> {"absent", "payload"}]

MaxRuns == 2

\* what the loop body did for one page
BatchStep(page, before, after, called) ==
    [run |-> run, page |-> page, force |-> force,
     image |-> page \in images, before |-> before, after |-> after,
     called |-> called, call |-> IF called THEN Len(api_calls) + 1 ELSE 0]

InitBatch ==
    /\ pages_dir \in BOOLEAN
    /\ images \in SUBSET BatchPages
    /\ pages_dir = FALSE => images = {}
    /\ \E d \in OutDirs :
          out_files = [p \in BatchPages |->
                          IF d[p] = "absent" THEN NoOutFile ELSE Payload(p, "list", 0)]
    /\ run = 1 /\ force \in BOOLEAN /\ page_numbers \in PageLists
    /\ bi = 0 /\ api_calls = <<>> /\ blog = <<>> /\ bpc = "start"
    /\ IdleMain /\ IdleVer /\ IdleFind /\ IdleMatch /\ IdleLate /\ IdleAdeq /\ IdleStats

\* lines 152-154: PAGES_DIR is missing, return 1
BatchNoPagesDir ==
    /\ bpc = "start" /\ ~pages_dir
    /\ bpc' = "exit1"
    /\ UNCHANGED <<pages_dir, images, out_files, run, force, page_numbers, bi,
                   api_calls, blog,
                   mainVars, verVars, findVars, matchVars, lateVars, adeqVars, statsVars>>

\* lines 157-164
BatchBegin ==
    /\ bpc = "start" /\ pages_dir
    /\ bpc' = "loop"
    /\ UNCHANGED <<pages_dir, images, out_files, run, force, page_numbers, bi,
                   api_calls, blog,
                   mainVars, verVars, findVars, matchVars, lateVars, adeqVars, statsVars>>

\* lines 167-170: the output file exists and --force is not given
BatchSkipExisting ==
    /\ bpc = "loop" /\ bi < Len(page_numbers)
    /\ LET page == page_numbers[bi + 1]
       IN  /\ AlreadyProduced(out_files, page, force)
           /\ blog' = Append(blog, BatchStep(page, out_files[page],
                                             out_files[page], FALSE))
    /\ bi' = bi + 1
    /\ UNCHANGED <<pages_dir, images, out_files, run, force, page_numbers,
                   api_calls, bpc,
                   mainVars, verVars, findVars, matchVars, lateVars, adeqVars, statsVars>>

\* mutant of BatchSkipNoImage: a missing image ends the loop (break for continue)
BatchSkipNoImage_breaks ==
    /\ bpc = "loop" /\ bi < Len(page_numbers)
    /\ LET page == page_numbers[bi + 1]
       IN  /\ ~AlreadyProduced(out_files, page, force)
           /\ page \notin images
           /\ blog' = Append(blog, BatchStep(page, out_files[page],
                                             out_files[page], FALSE))
    /\ bi' = bi + 1
    /\ bpc' = "exit0"
    /\ UNCHANGED <<pages_dir, images, out_files, run, force, page_numbers,
                   api_calls,
                   mainVars, verVars, findVars, matchVars, lateVars, adeqVars, statsVars>>

\* lines 171-174: the image of the page is missing
BatchSkipNoImage ==
    /\ bpc = "loop" /\ bi < Len(page_numbers)
    /\ LET page == page_numbers[bi + 1]
       IN  /\ ~AlreadyProduced(out_files, page, force)
           /\ page \notin images
           /\ blog' = Append(blog, BatchStep(page, out_files[page],
                                             out_files[page], FALSE))
    /\ bi' = bi + 1
    /\ UNCHANGED <<pages_dir, images, out_files, run, force, page_numbers,
                   api_calls, bpc,
                   mainVars, verVars, findVars, matchVars, lateVars, adeqVars, statsVars>>

\* lines 176-190, 196: the call and the reading of its answer succeed, the
\* payload is written
BatchPageOk ==
    /\ bpc = "loop" /\ bi < Len(page_numbers)
    /\ LET page == page_numbers[bi + 1]
       IN  /\ ~AlreadyProduced(out_files, page, force)
           /\ page \in images
           /\ \E o \in ApiOutcomes \ {"raise"} :
                 LET after == Payload(page, o, Len(api_calls) + 1)
                 IN  /\ out_files' = [out_files EXCEPT ![page] = after]
                     /\ blog' = Append(blog, BatchStep(page, out_files[page],
                                                       after, TRUE))
           /\ api_calls' = Append(api_calls, [run |-> run, page |-> page])
    /\ bi' = bi + 1
    /\ UNCHANGED <<pages_dir, images, run, force, page_numbers, bpc,
                   mainVars, verVars, findVars, matchVars, lateVars, adeqVars, statsVars>>

\* mutant of BatchPageFails: the exception is not caught and ends the run
BatchPageFails_aborts ==
    /\ bpc = "loop" /\ bi < Len(page_numbers)
    /\ LET page == page_numbers[bi + 1]
       IN  /\ ~AlreadyProduced(out_files, page, force)
           /\ page \in images
           /\ blog' = Append(blog, BatchStep(page, out_files[page],
                                             out_files[page], TRUE))
           /\ api_calls' = Append(api_calls, [run |-> run, page |-> page])
    /\ bi' = bi + 1
    /\ bpc' = "exit1"
    /\ UNCHANGED <<pages_dir, images, out_files, run, force, page_numbers,
                   mainVars, verVars, findVars, matchVars, lateVars, adeqVars, statsVars>>

\* lines 176-180, 191-196: an Exception is raised, the error marker is written
BatchPageFails ==
    /\ bpc = "loop" /\ bi < Len(page_numbers)
    /\ LET page == page_numbers[bi + 1]
           after == ErrorMarker(page, Len(api_calls) + 1)
       IN  /\ ~AlreadyProduced(out_files, page, force)
           /\ page \in images
           /\ out_files' = [out_files EXCEPT ![page] = after]
           /\ blog' = Append(blog, BatchStep(page, out_files[page], after, TRUE))
           /\ api_calls' = Append(api_calls, [run |-> run, page |-> page])
    /\ bi' = bi + 1
    /\ UNCHANGED <<pages_dir, images, run, force, page_numbers, bpc,
                   mainVars, verVars, findVars, matchVars, lateVars, adeqVars, statsVars>>

\* lines 198-199: the list is exhausted, return 0
BatchExit ==
    /\ bpc = "loop" /\ bi = Len(page_numbers)
    /\ bpc' = "exit0"
    /\ UNCHANGED <<pages_dir, images, out_files, run, force, page_numbers, bi,
                   api_calls, blog,
                   mainVars, verVars, findVars, matchVars, lateVars, adeqVars, statsVars>>

\* the script is run again over the same directories, with its own arguments
BatchRerun ==
    /\ bpc = "exit0" /\ run < MaxRuns
    /\ run' = run + 1
    /\ force' \in BOOLEAN
    /\ page_numbers' \in PageLists
    /\ bi' = 0
    /\ bpc' = "start"
    /\ UNCHANGED <<pages_dir, images, out_files, api_calls, blog,
                   mainVars, verVars, findVars, matchVars, lateVars, adeqVars, statsVars>>

NextBatch ==
    \/ BatchNoPagesDir \/ BatchBegin \/ BatchSkipExisting \/ BatchSkipNoImage
    \/ BatchPageOk \/ BatchPageFails \/ BatchExit \/ BatchRerun

SpecBatch == InitBatch /\ [][NextBatch]_vars

(***************************************************************************)
(* merge_graphics_llm.main, lines 80-124                                   *)
(*                                                                         *)
(* A page file of DIR_WITHOUT or DIR_COVERAGE is one of                    *)
(*   "absent"  no file, or a file json.load rejects (load_page is None);   *)
(*   "error"   the error marker {"page", "error"} of the vision batch;     *)
(*   "null"    a payload whose "graphs" is null;                           *)
(*   "list"    a payload whose "graphs" is a list of graphs.               *)
(* A graph of a page file is modelled by its graph_id (NoId: the key is    *)
(* absent), by `body`, which stands for header_data, graph_statistics,     *)
(* caption_data, log_panel_data and status_bar_data together, and by       *)
(* `ctx`, which tells whether it has a page_context.  Writing OUT_JSON is   *)
(* taken to succeed.                                                       *)
(***************************************************************************)
\* the key "graph_id" is absent
NoId == -1

NoBody == <<"none", 0, 0>>

PageFile(kind, gs) == [kind |-> kind, graphs |-> gs]

\* lines 30-33
get_graphs(data) == IF data.kind = "list" THEN data.graphs ELSE <<>>

\* line 106: gw.get("graph_id", i + 1), i counted from 0
GraphIdOf(gw, i) == IF gw.graph_id = NoId THEN i ELSE gw.graph_id

\* mutant of CoverageGraph: the coverage graph at the same position is taken
CoverageGraph_by_position(graphs_coverage, gid, i) ==
    IF i <= Len(graphs_coverage) THEN i ELSE 0

\* line 108: next((g for g in graphs_coverage if g.get("graph_id") == gid), None),
\* as the position of that graph in graphs_coverage (0: None)
CoverageGraph(graphs_coverage, gid, i) ==
    LET hits == {j \in 1..Len(graphs_coverage) :
                    /\ graphs_coverage[j].graph_id # NoId
                    /\ graphs_coverage[j].graph_id = gid}
    IN  IF hits = {} THEN 0 ELSE CHOOSE j \in hits : \A k \in hits : j <= k

\* lines 99-101 and 112: the page_context handed to merge_graph for graph i
PageContext(page, graphs_coverage, i) ==
    i = 1 /\ Len(graphs_coverage) > 0 /\ graphs_coverage[1].ctx

\* lines 36-71 and 109-113: the merged graph of graph i of the page
MergedGraph(page, graphs_without, graphs_coverage, i) ==
    LET gid == GraphIdOf(graphs_without[i], i)
        j   == CoverageGraph(graphs_coverage, gid, i)
    IN  [page |-> page, graph_id |-> gid,
         without_coverage |-> graphs_without[i].body,
         with_coverage |-> IF j = 0 THEN NoBody ELSE graphs_coverage[j].body,
         page_context |-> PageContext(page, graphs_coverage, i)]

\* lines 103-107: page_entry
PageEntry(page, graphs_without) ==
    [page |-> page,
     graph_ids |-> [i \in 1..Len(graphs_without) |-> GraphIdOf(graphs_without[i], i)]]

\* the graph ids a page file may hold
GraphIds == {NoId, 0, 1, 2, 3}

MaxPageGraphs == 2

\* the lists of graphs of the without-coverage file of a page
WithoutLists(page) ==
    UNION { { [i \in 1..n |-> [graph_id |-> ids[i], body |-> <<"without", page, i>>,
                               ctx |-> FALSE]] :
              ids \in [1..n -> GraphIds] } : n \in 0..MaxPageGraphs }

\* the lists of graphs of the coverage file of a page; only graphs_coverage[0] is
\* asked for its page_context
CoverageLists(page) ==
    UNION { { [i \in 1..n |-> [graph_id |-> ids[i], body |-> <<"coverage", page, i>>,
                               ctx |-> i = 1 /\ c]] :
              ids \in [1..n -> GraphIds], c \in BOOLEAN } : n \in 0..MaxPageGraphs }

NoGraphFiles == {PageFile("absent", <<>>), PageFile("error", <<>>), PageFile("null", <<>>)}

\* the two directories: every file of page 1, and two fixed contents of page 2
WithoutDirs ==
    { [p \in {1, 2} |-> IF p = 1 THEN f
                        ELSE PageFile("list", <<[graph_id |-> 1, body |-> <<"without", 2, 1>>,
                                                 ctx |-> FALSE]>>)] :
      f \in NoGraphFiles \cup {PageFile("list", gs) : gs \in WithoutLists(1)} }

CoverageDirs ==
    { [p \in {1, 2} |-> IF p = 1 THEN f ELSE f2] :
      f \in NoGraphFiles \cup {PageFile("list", gs) : gs \in CoverageLists(1)},
      f2 \in {PageFile("absent", <<>>),
              PageFile("list", <<[graph_id |-> 1, body |-> <<"coverage", 2, 1>>,
                                  ctx |-> TRUE]>>)} }

\* line 80: page_numbers, from --pages (never empty: "".split(",") is [""])
MergePageLists == {<<1>>, <<2>>, <<1, 2>>, <<2, 1>>, <<1, 1>>}

\* lines 83-90
EmptyMerged == [pages |-> <<>>, graphs |-> <<>>, written |-> FALSE]

InitMerge ==
    /\ dir_without \in WithoutDirs /\ dir_coverage \in CoverageDirs
    /\ m_pages \in MergePageLists
    /\ mi = 0 /\ merged = EmptyMerged /\ mgpc = "loop"
    /\ IdleMain /\ IdleVer /\ IdleFind /\ IdleMatch
    /\ IdleAdeq /\ IdleStats /\ IdleBatch /\ IdleSumm

\* lines 92-116: one page of the list
MergePage ==
    /\ mgpc = "loop" /\ mi < Len(m_pages)
    /\ LET page == m_pages[mi + 1]
           graphs_without  == get_graphs(dir_without[page])
           graphs_coverage == get_graphs(dir_coverage[page])
       IN  merged' =
               [merged EXCEPT
                   !.pages = Append(@, PageEntry(page, graphs_without)),
                   !.graphs = @ \o [i \in 1..Len(graphs_without) |->
                                       MergedGraph(page, graphs_without,
                                                   graphs_coverage, i)]]
    /\ mi' = mi + 1
    /\ UNCHANGED <<dir_without, dir_coverage, m_pages, mgpc,
                   mainVars, verVars, findVars, matchVars,
                   adeqVars, statsVars, batchVars, summVars>>

\* lines 118-124: the list is exhausted, OUT_JSON is written
MergeWrite ==
    /\ mgpc = "loop" /\ mi = Len(m_pages)
    /\ merged' = [merged EXCEPT !.written = TRUE]
    /\ mgpc' = "done"
    /\ UNCHANGED <<dir_without, dir_coverage, m_pages, mi,
                   mainVars, verVars, findVars, matchVars,
                   adeqVars, statsVars, batchVars, summVars>>

NextMerge == MergePage \/ MergeWrite

SpecMerge == InitMerge /\ [][NextMerge]_vars

(***************************************************************************)
(* summarize_llm_graphics: extract_graphs_from_pages,                      *)
(* find_graph_pair_for_block and the block loop of main                    *)
(*                                                                         *)
(* pages_data is what load_page_results returns for data/graphics_llm, the *)
(* directory the vision batch writes: a page without a file is not a key,  *)
(* a file json.load rejects counts as an error marker.  A graph is         *)
(* modelled by graph_id and K (crystallinity_index after _safe_float);     *)
(* P, red, blue and green, which only the figures of the report read, are  *)
(* left out, and so are lines 222-250, which compute those figures for a   *)
(* block that has a pair.  A pair of graphs is a pair of positions in the  *)
(* list `graphs`.  "net pary grafikov po K1,K2" is written for             *)
(* 'нет пары графиков по K1,K2'.                                           *)
(***************************************************************************)
\* line 28
TOL_K == Rat(2, 1000)

NOTE_NO_PAIR == "net pary grafikov po K1,K2"

RMul(a, b) == IF IsNaN(a) \/ IsNaN(b) THEN NaN ELSE Rat(a[1] * b[1], a[2] * b[2])

\* find_graph_pair_for_block returns None
NoPair == <<0, 0>>

\* line 65: sorted(pages_data.keys())
RECURSIVE SortedKeys(_)
SortedKeys(S) ==
    IF S = {} THEN <<>>
    ELSE LET lo == CHOOSE p \in S : \A q \in S : p <= q
         IN  <<lo>> \o SortedKeys(S \ {lo})

PageKeys(data) == SortedKeys({p \in DOMAIN data : data[p].kind # "absent"})

\* lines 69-81: the graphs of one page, appended to `graphs`
ExtractedOf(page, v) ==
    [i \in 1..Len(v.graphs) |->
        [page |-> page, graph_id |-> v.graphs[i].graph_id, K |-> v.graphs[i].K]]

\* line 93: x.get("graph_id") or 0
SortKey(g) == IF g.graph_id = NoId THEN 0 ELSE g.graph_id

\* lines 85-94: by_page[p], as positions in `graphs`, in the order list.sort leaves
\* (by key, equal keys in the order of `graphs`)
RECURSIVE SortedPositions(_, _)
SortedPositions(gs, S) ==
    IF S = {} THEN <<>>
    ELSE LET lo == CHOOSE i \in S :
                      \A j \in S : \/ SortKey(gs[i]) < SortKey(gs[j])
                                   \/ SortKey(gs[i]) = SortKey(gs[j]) /\ i <= j
         IN  <<lo>> \o SortedPositions(gs, S \ {lo})

by_page_get(gs, p) == SortedPositions(gs, {i \in 1..Len(gs) : gs[i].page = p})

\* lines 122-123
PairErr(ga, gb, k1, k2) ==
    LET d1 == RSub(ga.K, k1)
        d2 == RSub(gb.K, k2)
    IN  RAdd(RMul(d1, d1), RMul(d2, d2))

\* mutant of Oriented: the pair is returned in the order of the list
Oriented_as_listed(i, j, err1, err2) == <<i, j>>

\* lines 127-130
Oriented(i, j, err1, err2) == IF RLeq(err1, err2) THEN <<i, j>> ELSE <<j, i>>

\* best = None, best_err = float("inf")
NoBestPair == [pair |-> NoPair, err |-> Zero, inf |-> TRUE]

\* lines 118-130: the two loops, from the pair (i, j) on
RECURSIVE ScanPairs(_, _, _, _, _, _)
ScanPairs(gs, i, j, k1, k2, best) ==
    IF i > Len(gs) THEN best
    ELSE IF j > Len(gs) THEN ScanPairs(gs, i + 1, i + 2, k1, k2, best)
    ELSE IF IsNone(gs[i].K) \/ IsNone(gs[j].K)
         THEN ScanPairs(gs, i, j + 1, k1, k2, best)
    ELSE LET err1 == PairErr(gs[i], gs[j], k1, k2)
             err2 == PairErr(gs[j], gs[i], k1, k2)
             err  == IF RLeq(err1, err2) THEN err1 ELSE err2
         IN  ScanPairs(gs, i, j + 1, k1, k2,
                       IF best.inf \/ RLt(err, best.err)
                       THEN [pair |-> Oriented(i, j, err1, err2), err |-> err,
                             inf |-> FALSE]
                       ELSE best)

\* line 110
PositionalPair(block, gs) == Len(by_page_get(gs, block.block_index)) >= 2

\* lines 97-133
find_graph_pair_for_block(block, gs) ==
    IF PositionalPair(block, gs)
    THEN <<by_page_get(gs, block.block_index)[1], by_page_get(gs, block.block_index)[2]>>
    ELSE IF IsNone(block.K1) \/ IsNone(block.K2) THEN NoPair
    ELSE LET best == ScanPairs(gs, 1, 2, block.K1, block.K2, NoBestPair)
         IN  IF best.inf \/ RLt(RMul(RMul(TOL_K, TOL_K), Rat(2, 1)), best.err)
             THEN NoPair
             ELSE best.pair

\* the K of a graph of a page file
GraphKs == {PyNone, Rat(950, 1000), Rat(952, 1000), Rat(953, 1000)}

\* the lists of graphs of a page file, numbered in the order of the list or against it
SummLists ==
    UNION { { [i \in 1..n |-> [graph_id |-> IF up THEN i ELSE n + 1 - i, K |-> ks[i]]] :
              ks \in [1..n -> GraphKs], up \in BOOLEAN } : n \in 0..MaxPageGraphs }

SummFiles == NoGraphFiles \cup {PageFile("list", gs) : gs \in SummLists}

SummPages == {1, 2}

\* calc["blocks"]: one block, with the fields find_graph_pair_for_block reads
SummBlocks ==
    { <<[block_index |-> b, K1 |-> k1, K2 |-> k2]>> :
      b \in {1, 3}, k1 \in {PyNone, Rat(950, 1000)},
      k2 \in {PyNone, Rat(950, 1000), Rat(952, 1000)} }

InitSumm ==
    /\ pages_data \in [SummPages -> SummFiles]
    /\ s_blocks \in SummBlocks
    /\ spi = 0 /\ s_graphs = <<>> /\ sbi = 0 /\ details = <<>> /\ smpc = "extract"
    /\ IdleMain /\ IdleVer /\ IdleFind /\ IdleMatch
    /\ IdleAdeq /\ IdleStats /\ IdleBatch /\ IdleMerge

\* lines 163-165: no page file at all, main returns 1
SummNoPages ==
    /\ smpc = "extract" /\ spi = 0 /\ PageKeys(pages_data) = <<>>
    /\ smpc' = "return1"
    /\ UNCHANGED <<pages_data, s_blocks, spi, s_graphs, sbi, details,
                   mainVars, verVars, findVars, matchVars,
                   adeqVars, statsVars, batchVars, mergeVars>>

\* lines 67-68: an error marker, or a page without "graphs", is passed over
SummSkipPage ==
    /\ smpc = "extract" /\ spi < Len(PageKeys(pages_data))
    /\ pages_data[PageKeys(pages_data)[spi + 1]].kind = "error"
    /\ spi' = spi + 1
    /\ UNCHANGED <<pages_data, s_blocks, s_graphs, sbi, details, smpc,
                   mainVars, verVars, findVars, matchVars,
                   adeqVars, statsVars, batchVars, mergeVars>>

\* line 69: `for g in v["graphs"]` with "graphs": null raises TypeError; nothing
\* catches it
SummExtractRaises ==
    /\ smpc = "extract" /\ spi < Len(PageKeys(pages_data))
    /\ pages_data[PageKeys(pages_data)[spi + 1]].kind = "null"
    /\ spi' = spi + 1
    /\ smpc' = "raised"
    /\ UNCHANGED <<pages_data, s_blocks, s_graphs, sbi, details,
                   mainVars, verVars, findVars, matchVars,
                   adeqVars, statsVars, batchVars, mergeVars>>

\* lines 69-81
SummExtractPage ==
    /\ smpc = "extract" /\ spi < Len(PageKeys(pages_data))
    /\ LET page == PageKeys(pages_data)[spi + 1]
       IN  /\ pages_data[page].kind = "list"
           /\ s_graphs' = s_graphs \o ExtractedOf(page, pages_data[page])
    /\ spi' = spi + 1
    /\ UNCHANGED <<pages_data, s_blocks, sbi, details, smpc,
                   mainVars, verVars, findVars, matchVars,
                   adeqVars, statsVars, batchVars, mergeVars>>

\* lines 168-170: no graph was extracted, main returns 1
SummNoGraphs ==
    /\ smpc = "extract" /\ spi = Len(PageKeys(pages_data)) /\ spi > 0
    /\ s_graphs = <<>>
    /\ smpc' = "return1"
    /\ UNCHANGED <<pages_data, s_blocks, spi, s_graphs, sbi, details,
                   mainVars, verVars, findVars, matchVars,
                   adeqVars, statsVars, batchVars, mergeVars>>

\* lines 172-207: the graphs are grouped by page and the block loop begins
SummBegin ==
    /\ smpc = "extract" /\ spi = Len(PageKeys(pages_data)) /\ s_graphs # <<>>
    /\ smpc' = "blocks"
    /\ UNCHANGED <<pages_data, s_blocks, spi, s_graphs, sbi, details,
                   mainVars, verVars, findVars, matchVars,
                   adeqVars, statsVars, batchVars, mergeVars>>

\* lines 209-250: one block of the loop
SummBlock ==
    /\ smpc = "blocks" /\ sbi < Len(s_blocks)
    /\ LET b == s_blocks[sbi + 1]
           pair == find_graph_pair_for_block(b, s_graphs)
       IN  details' = Append(details,
                             [bidx |-> b.block_index, pair |-> pair,
                              msg |-> IF pair = NoPair THEN NOTE_NO_PAIR ELSE ""])
    /\ sbi' = sbi + 1
    /\ UNCHANGED <<pages_data, s_blocks, spi, s_graphs, smpc,
                   mainVars, verVars, findVars, matchVars,
                   adeqVars, statsVars, batchVars, mergeVars>>

\* lines 252-298: the report is written, main returns 0
SummReport ==
    /\ smpc = "blocks" /\ sbi = Len(s_blocks)
    /\ smpc' = "return0"
    /\ UNCHANGED <<pages_data, s_blocks, spi, s_graphs, sbi, details,
                   mainVars, verVars, findVars, matchVars,
                   adeqVars, statsVars, batchVars, mergeVars>>

NextSumm ==
    \/ SummNoPages \/ SummSkipPage \/ SummExtractRaises \/ SummExtractPage
    \/ SummNoGraphs \/ SummBegin \/ SummBlock \/ SummReport

SpecSumm == InitSumm /\ [][NextSumm]_vars

(***************************************************************************)
(* Claims about verify_block (checked under SpecVerify)                    *)
(***************************************************************************)
RawDenomsNonZero == ~IsZero(vb.K1) /\ ~IsZero(vb.P1) /\ ~IsZero(vb.L1) /\ ~IsZero(vb.R1)

\* C1: for every block, verify_block recomputes G1_check = K2/K1 + P2/P1,
\* G2_check = L2/L1 + R2/R1, G_check = G2_check - G1_check and, when G_check is
\* not zero, D_check = G1 / G_check with the stated G1 and the recomputed G_check.
\* (Every value is computed as soon as the quotients it needs exist, whether or
\* not a later line of verify_block raises.)
C1_Recompute ==
    vpc = "done" =>
        /\ (~IsZero(vb.K1) /\ ~IsZero(vb.P1)) =>
               vres.G1_check = RAdd(RDiv(vb.K2, vb.K1), RDiv(vb.P2, vb.P1))
        /\ RawDenomsNonZero =>
               /\ vres.G2_check = RAdd(RDiv(vb.L2, vb.L1), RDiv(vb.R2, vb.R1))
               /\ vres.G_check = RSub(vres.G2_check, vres.G1_check)
               /\ ~IsZero(vres.G_check) => vres.D_check = RDiv(vb.G1, vres.G_check)

C1_Witness ==
    /\ vpc = "done" /\ vb = ScenarioBlock /\ vres.at = "return"
    /\ vres.G_check = Rat(1125, 10000) /\ vres.D_check = Rat(29, 3)

\* |check - stated| <= 0.002, or stated > 0 and |check - stated| <= stated / 1000
Accepted(check, stated) ==
    /\ IsNum(check)
    /\ \/ RLeq(RAbs(RSub(check, stated)), Rat(2, 1000))
       \/ /\ stated[1] > 0
          /\ RLeq(RAbs(RSub(check, stated)), RDiv(stated, Rat(1000, 1)))

Hundred == Rat(100, 1)

\* C2: each of the four checks is accepted iff |check - stated| <= ABS_TOL or
\* |check - stated| / stated <= REL_TOL, both bounds inclusive; a check whose
\* evaluation raised was not acceptable; computed 100.1 against stated 100 is a
\* match and computed 100.1999 against stated 100 is a mismatch.
C2_DualTolerance ==
    vpc = "done" =>
        /\ vres.ok_G1 # "unset" => (Truthy(vres.ok_G1) <=> Accepted(vres.G1_check, vb.G1))
        /\ vres.ok_G2 # "unset" => (Truthy(vres.ok_G2) <=> Accepted(vres.G2_check, vb.G2))
        /\ vres.ok_G # "unset" => (Truthy(vres.ok_G) <=> Accepted(vres.G_check, vb.G))
        /\ vres.ok_D # "unset" => (Truthy(vres.ok_D) <=> Accepted(vres.D_check, vb.D))
        /\ vres.at = "raise87" => ~Accepted(vres.G1_check, vb.G1)
        /\ vres.at = "raise88" => ~Accepted(vres.G2_check, vb.G2)
        /\ vres.at = "raise90" => ~Accepted(vres.D_check, vb.D)
        /\ (vres.ok_G1 # "unset" /\ vb.G1 = Hundred /\ vres.G1_check = Rat(1001, 10))
               => vres.ok_G1 = "True"
        /\ (vres.ok_G1 # "unset" /\ vb.G1 = Hundred /\ vres.G1_check = Rat(1001999, 10000))
               => vres.ok_G1 = "False"
        /\ (vres.ok_G2 # "unset" /\ vb.G2 = Hundred /\ vres.G2_check = Rat(1001, 10))
               => vres.ok_G2 = "True"
        /\ (vres.ok_G2 # "unset" /\ vb.G2 = Hundred /\ vres.G2_check = Rat(1001999, 10000))
               => vres.ok_G2 = "False"
        /\ (vres.ok_G # "unset" /\ vb.G = Hundred /\ vres.G_check = Rat(1001, 10))
               => vres.ok_G = "True"
        /\ (vres.ok_G # "unset" /\ vb.G = Hundred /\ vres.G_check = Rat(1001999, 10000))
               => vres.ok_G = "False"
        /\ (vres.ok_D # "unset" /\ vb.D = Hundred /\ vres.D_check = Rat(1001, 10))
               => vres.ok_D = "True"

C2_Witness ==
    /\ vpc = "done"
    /\ vb.G1 = Hundred /\ vres.G1_check = Rat(1001, 10) /\ vres.ok_G1 = "True"
    /\ vb.G2 = Hundred /\ vres.G2_check = Rat(1001999, 10000) /\ vres.ok_G2 = "False"

\* C3 as stated: for the block of the end-to-end scenario all four checks are
\* true and match is true.
C3_AllFourTrue ==
    (vpc = "done" /\ vb = ScenarioBlock) =>
        /\ vres.ok_G1 = "True" /\ vres.ok_G2 = "True"
        /\ vres.ok_G = "True" /\ vres.ok_D = "True"
        /\ vres.match = "True"

\* C3 amended: for the block of the end-to-end scenario verify_block returns
\* G1_check = 2.0875 and G2_check = 2.2, ok_G1 and ok_G2 are false (the stated G1 =
\* 1.0875 and G2 = 1.2 are each 1 below the recomputed value), ok_G and ok_D are
\* true, and match is false.
C3_Scenario ==
    (vpc = "done" /\ vb = ScenarioBlock) =>
        /\ vres.at = "return"
        /\ vres.G1_check = Rat(20875, 10000) /\ vres.G2_check = Rat(22, 10)
        /\ vres.ok_G1 = "False" /\ vres.ok_G2 = "False"
        /\ vres.ok_G = "True" /\ vres.ok_D = "True"
        /\ vres.match = "False"

C3_Witness == vpc = "done" /\ vb = ScenarioBlock /\ vres.at = "return"

\* C5: D_check is G1 / G_check when |G_check| > 1e-12 and NaN otherwise; the
\* near-zero case never raises; a block whose D_check is NaN has ok_D false and
\* match false.  (Within the integer range of the model a rational of absolute
\* value at most 1e-12 is zero.)
C5_NearZero ==
    (vpc = "done" /\ RawDenomsNonZero) =>
        /\ vres.D_check = IF IsZero(vres.G_check) THEN NaN
                          ELSE RDiv(vb.G1, vres.G_check)
        /\ (IsNaN(vres.D_check) /\ vres.at \notin {"raise87", "raise88"}) =>
               /\ vres.at = "return"
               /\ vres.ok_D = "False"
               /\ ~Truthy(vres.match)

(***************************************************************************)
(* Claims about the extractor and the verifier loop (checked under Spec)   *)
(***************************************************************************)
\* C4: verification never aborts the batch: no block the extractor constructs
\* makes verify_block raise, and the main loop goes on to the next chunk.
C4_VerifyNeverAborts == pc # "raisedZeroDivision"

\* C7: a chunk that does not have the expected shape never aborts extraction,
\* a token of digits, dots and commas that is no decimal number included.
C7_ParseNeverAborts == pc # "raisedValueError"

AllFound(chunk) ==
    /\ chunk.KK # <<>> /\ chunk.LL # <<>> /\ chunk.PP # <<>>
    /\ chunk.RR # <<>> /\ chunk.GG # <<>>

\* the k-th emitted block carries index k and the twelve values of chunk c
IsBlockOf(blk, k, c) ==
    /\ blk.block_index = k
    /\ Parsed[c].kind = "block"
    /\ \A f \in BlockFields : blk[f] = Parsed[c].b[f]

EmittedFrom(bs, cs) ==
    LET found == SelectSeq(cs, AllFound)
    IN  /\ Len(bs) = Len(found)
        /\ \A k \in 1..Len(bs) : IsBlockOf(bs[k], k, found[k])

\* C6: at every point of the loop the list `blocks` holds exactly the consumed
\* chunks in which all twelve fields were found, in document order, the k-th with
\* block_index = k; and the file written after the loop holds that list for the
\* whole chunk sequence, with total_blocks = n.
C6_BlockIndexes ==
    /\ EmittedFrom(blocks, SubSeq(chunks, 1, ci))
    /\ pc = "done" =>
           /\ out.written
           /\ EmittedFrom(out.blocks, chunks)
           /\ out.total_blocks = Len(out.blocks)

\* a block was emitted after a skipped chunk and before another skipped chunk
C6_Witness ==
    /\ pc = "done" /\ Len(chunks) = 3 /\ out.total_blocks = 1
    /\ ~AllFound(chunks[1]) /\ AllFound(chunks[2]) /\ ~AllFound(chunks[3])
    /\ out.blocks[1].block_index = 1

(***************************************************************************)
(* Claims about the matcher                                                *)
(***************************************************************************)
KDist(b, K1, K2) == RAdd(RAbs(RSub(b.K1, K1)), RAbs(RSub(b.K2, K2)))

\* C9: find_block_by_k1_k2 returns a block iff some block is within 0.001 of the
\* query on |K1 difference| + |K2 difference| (the minimum over all blocks is
\* <= 0.001); the block returned is one of the list, is within the tolerance, and
\* no block of the list is closer; an empty list gives no block.
C9_NearestWithinTolerance ==
    fpc = "done" =>
        LET D(b) == KDist(b, fq[1], fq[2])
            tol == Rat(1, 1000)
            within == \E i \in 1..Len(fblocks) : RLeq(D(fblocks[i]), tol)
        IN  /\ (fres.k # NoBlock) <=> within
            /\ fres.k # NoBlock =>
                   /\ \E i \in 1..Len(fblocks) : fblocks[i] = fres.k
                   /\ RLeq(D(fres.k), tol)
                   /\ \A j \in 1..Len(fblocks) : RLeq(D(fres.k), D(fblocks[j]))
            /\ fblocks = <<>> => fres.k = NoBlock

\* the block returned is not the first of the list, lies exactly on the tolerance,
\* and the list also holds a block beyond it
C9_Witness ==
    /\ fpc = "done" /\ fres.k # NoBlock /\ fres.k.block_index > 1
    /\ KDist(fres.k, fq[1], fq[2]) = Rat(1, 1000)
    /\ \E i \in 1..Len(fblocks) : RLt(Rat(1, 1000), KDist(fblocks[i], fq[1], fq[2]))

\* the block stored at position bidx of calc["blocks"], if there is one
SlotOf(bidx) ==
    IF bidx \in 1..Len(calc_blocks) THEN calc_blocks[bidx] ELSE NoBlock

\* C8: for every record the matcher chain runs on, the tiers apply in strict
\* priority order: a block at the positional index bidx = (page-1)*2 + graph_id is
\* returned with no distance computed and the row is tagged as matched by index,
\* however close another block is on (K1, K2); find_block_by_k1_k2 is called only
\* if the slot is empty, and find_block_by_l1_l2 only if the slot is empty and
\* find_block_by_k1_k2 returned nothing.
C8_TierOrder ==
    \A i \in 1..Len(graphs) :
        mtrace[i].ran =>
            LET g == graphs[i]
                t == mtrace[i]
                slot == SlotOf((g.page - 1) * 2 + g.graph_id)
            IN  /\ slot # NoBlock =>
                       /\ t.block = slot
                       /\ t.distances = 0 /\ ~t.called_k /\ ~t.called_l
                       /\ rows[t.row].note = NOTE_BY_INDEX
                /\ t.called_k <=> slot = NoBlock
                /\ t.called_l <=>
                       (slot = NoBlock /\
                        \A j \in 1..Len(calc_blocks) :
                            RLt(Rat(1, 1000), KDist(calc_blocks[j], g.K1, g.K2)))
                /\ rows[t.row].note = NOTE_BY_K =>
                       (slot = NoBlock /\ t.block # NoBlock /\ ~t.called_l)
                /\ rows[t.row].note = NOTE_BY_L =>
                       (slot = NoBlock /\ t.block # NoBlock /\ t.called_l)

\* the positional target is 0.5 away on (K1, K2), another block is 0.0001 away, and
\* the positional target is returned, tagged by index
C8_Witness ==
    \E i \in 1..Len(graphs) :
        /\ mtrace[i].ran /\ mtrace[i].slot # NoBlock
        /\ KDist(mtrace[i].slot, graphs[i].K1, graphs[i].K2) = Rat(5, 10)
        /\ \E j \in 1..Len(calc_blocks) :
               KDist(calc_blocks[j], graphs[i].K1, graphs[i].K2) = Rat(1, 10000)
        /\ mtrace[i].block = mtrace[i].slot
        /\ rows[mtrace[i].row].note = NOTE_BY_INDEX

\* C10: a record that has no positional slot and whose nearest neighbour on
\* (K1, K2) is at distance 0.01 comes out unmatched: no block, row tagged
\* 'нет блока'.
C10_FarNeighbourUnmatched ==
    \A i \in 1..Len(graphs) :
        LET g == graphs[i]
            t == mtrace[i]
        IN  ( /\ t.ran /\ t.slot = NoBlock /\ calc_blocks # <<>>
              /\ \E j \in 1..Len(calc_blocks) :
                     KDist(calc_blocks[j], g.K1, g.K2) = Rat(1, 100)
              /\ \A j \in 1..Len(calc_blocks) :
                     RLeq(Rat(1, 100), KDist(calc_blocks[j], g.K1, g.K2)) )
            => (t.block = NoBlock /\ rows[t.row].note = NOTE_NO_BLOCK)

\* C11: when tiers 1 and 2 both yield nothing, tier 3 returns the block that
\* minimises |b.L1 - q.L1| + |b.L2 - q.L2| for the L1 and L2 values q.L1, q.L2 of
\* the query record, accepted only if that distance is <= 0.02; otherwise the
\* record stays unmatched.
C11_SecondaryPair ==
    \A i \in 1..Len(mtrace) :
        (mtrace[i].called_l /\ IsNum(graphs[i].L1) /\ IsNum(graphs[i].L2)) =>
            mtrace[i].block =
                find_block_by_l1_l2(calc_blocks, graphs[i].L1, graphs[i].L2,
                                    L_MATCH_TOLERANCE)

\* what the three tiers return for record g, each computed on its own
Tier1(g) == blocks_by_idx_get(calc_blocks, block_index_from_page_graph(g.page, g.graph_id))
Tier2(g) == find_block_by_k1_k2(calc_blocks, g.K1, g.K2)
Tier3(g) == find_block_by_l1_l2(calc_blocks, g.K1, g.K2, L_MATCH_TOLERANCE)

\* C12: every row the matcher chain produced carries exactly one of the four tags
\* and the tag names the tier that produced its block: the empty tag iff the block
\* is the one stored at bidx = (page-1)*2 + graph_id; 'po K1,K2' iff no block is
\* stored at bidx and find_block_by_k1_k2 returned the block; 'po L1,L2' iff tiers
\* 1 and 2 returned nothing and find_block_by_l1_l2 returned the block; 'net bloka'
\* iff all three tiers returned nothing.  A row has the values of a block iff its
\* tag is not 'net bloka'.
C12_TagNamesTier ==
    \A i \in 1..Len(mtrace) :
        mtrace[i].ran =>
            LET g == graphs[i]
                r == rows[mtrace[i].row]
                blk == mtrace[i].block
            IN  /\ r.note \in {NOTE_BY_INDEX, NOTE_BY_K, NOTE_BY_L, NOTE_NO_BLOCK}
                /\ r.note = NOTE_BY_INDEX <=> (Tier1(g) # NoBlock /\ blk = Tier1(g))
                /\ r.note = NOTE_BY_K <=>
                       (Tier1(g) = NoBlock /\ Tier2(g) # NoBlock /\ blk = Tier2(g))
                /\ r.note = NOTE_BY_L <=>
                       (Tier1(g) = NoBlock /\ Tier2(g) = NoBlock
                        /\ Tier3(g) # NoBlock /\ blk = Tier3(g))
                /\ r.note = NOTE_NO_BLOCK <=>
                       (Tier1(g) = NoBlock /\ Tier2(g) = NoBlock /\ Tier3(g) = NoBlock)
                /\ r.note = NOTE_NO_BLOCK <=> blk = NoBlock
                /\ blk = NoBlock <=> IsNone(r.G1_pdf)
                /\ blk # NoBlock =>
                       (r.G1_pdf = blk.G1 /\ r.G2_pdf = blk.G2 /\ r.D_pdf = blk.D)

C12_Witness ==
    /\ \E i \in 1..Len(rows) : rows[i].note = NOTE_BY_K
    /\ \E i \in 1..Len(rows) : rows[i].note = NOTE_BY_INDEX /\ IsNum(rows[i].G1_pdf)

(***************************************************************************)
(* Claims about the rows built from graphics_merged.json                   *)
(***************************************************************************)
\* C13: no record is dropped by the matcher stage: every graph record consumed
\* by analyze_merged_graphics.main has yielded exactly one row, so the number of
\* rows equals the number of graph records, and a record the chain ran on without
\* finding a block has a row tagged 'net bloka'.
C13_NoRecordDropped ==
    /\ Len(rows) = Len(graphs)
    /\ \A i \in 1..Len(mtrace) :
          (mtrace[i].ran /\ mtrace[i].block = NoBlock) =>
              /\ mtrace[i].row \in 1..Len(rows)
              /\ rows[mtrace[i].row].note = NOTE_NO_BLOCK

\* C14: a graph record lacking K1, K2, Pr1 or Pr2 is retained by
\* analyze_report_adequacy.load_and_build_rows as a row whose derived fields are
\* null.
C14_MissingFieldRetained ==
    \A i \in 1..Len(a_graphs) :
        LET g == a_graphs[i]
        IN  (IsNone(g.K1) \/ IsNone(g.K2) \/ IsNone(g.Pr1) \/ IsNone(g.Pr2)) =>
                /\ a_trace[i].row \in 1..Len(a_rows)
                /\ LET r == a_rows[a_trace[i].row]
                   IN  /\ r.page = g.page /\ r.graph_id = g.graph_id
                       /\ IsNone(r.G1_merged) /\ IsNone(r.G1_pdf) /\ IsNone(r.G2_pdf)
                       /\ IsNone(r.D_met) /\ IsNone(r.D_calc) /\ IsNone(r.D_pdf)

\* C15: in the merged-graph analysis a zero denominator never raises: for a record
\* with all four metrics present and K1 = 0 or Pr1 = 0 the row reports G1_merged
\* as null and the loop goes on; D_met and D_calc are null when the matched
\* block's G is not greater than 0.
C15_ZeroDenominatorNull ==
    /\ mpc # "raised"
    /\ \A i \in 1..Len(graphs) :
          LET g == graphs[i]
          IN  (/\ g.has_cov
               /\ IsNum(g.K1) /\ IsNum(g.K2) /\ IsNum(g.Pr1) /\ IsNum(g.Pr2)
               /\ (IsZero(g.K1) \/ IsZero(g.Pr1))) =>
                  /\ mtrace[i].row \in 1..Len(rows)
                  /\ IsNone(rows[mtrace[i].row].G1_merged)
    /\ \A i \in 1..Len(mtrace) :
          (/\ mtrace[i].ran /\ mtrace[i].block # NoBlock
           /\ ~RLt(Zero, mtrace[i].block.G)) =>
              /\ IsNone(rows[mtrace[i].row].D_met)
              /\ IsNone(rows[mtrace[i].row].D_calc)

(***************************************************************************)
(* Claims about the histogram of stats_d (checked under SpecStats)         *)
(***************************************************************************)
RECURSIVE SumBins(_, _)
SumBins(h, i) == IF i \notin DOMAIN h THEN 0 ELSE h[i] + SumBins(h, i + 1)

\* C16: for every list of D samples the counts of all histogram bins add up to
\* the number of samples: once the histogram loop is over the sum equals n, and
\* during the loop it equals the number of samples consumed.
C16_HistogramComplete ==
    /\ spc # "raised"
    /\ spc \in {"hist", "done"} => SumBins(hist, 1) = di
    /\ spc = "done" => SumBins(hist, 1) = Len(D_values)

\* C17: each sample is counted in at most one bin: a value v with
\* edge[i] <= v < edge[i+1] is counted in bin i and in no other, a value at or
\* above the last edge is counted in the last bin and in no other, and every
\* bin's count is the number of samples counted in it.
C17_OneBinPerSample ==
    spc \in {"hist", "done"} =>
        /\ \A k \in 1..Len(hinc) :
              LET v == D_values[k]
              IN  /\ Len(hinc[k]) <= 1
                  /\ \A i \in BinIds :
                        (RLeq(bins[i], v) /\ RLt(v, bins[i + 1])) => hinc[k] = <<i>>
                  /\ RLeq(bins[Len(bins)], v) => hinc[k] = <<Len(bins) - 1>>
        /\ \A i \in BinIds :
              hist[i] = Cardinality({k \in 1..Len(hinc) : hinc[k] = <<i>>})

C17_Witness ==
    /\ spc = "done"
    /\ \E k \in 1..Len(hinc) : D_values[k] = Rat(5625, 100) /\ hinc[k] = <<2>>
    /\ \E k \in 1..Len(hinc) : D_values[k] = Rat(60, 1) /\ hinc[k] = <<8>>
    /\ hist[2] = 1 /\ hist[8] >= 1

(***************************************************************************)
(* Claims about the flags and the errors list of parse_calculations        *)
(***************************************************************************)
PyBools == {"True", "False"}

\* C18: for every block verify_block returns for, ok_G1, ok_G2, ok_G, ok_D and
\* match are booleans, and match is true iff all four flags are true; also for a
\* block whose stated G is 0.
C18_FlagsBoolean ==
    (vpc = "done" /\ vres.at = "return") =>
        /\ vres.ok_G1 \in PyBools /\ vres.ok_G2 \in PyBools
        /\ vres.ok_G \in PyBools /\ vres.ok_D \in PyBools
        /\ vres.match \in PyBools
        /\ vres.match = "True" <=>
               (/\ vres.ok_G1 = "True" /\ vres.ok_G2 = "True"
                /\ vres.ok_G = "True" /\ vres.ok_D = "True")

\* the errors list agrees with the blocks list
ErrorsAgree(bs, es) ==
    /\ Len(es) = Cardinality({i \in 1..Len(bs) : ~Truthy(bs[i].match)})
    /\ Cardinality({i \in 1..Len(bs) : Truthy(bs[i].match)}) + Len(es) = Len(bs)
    /\ \A k \in 1..Len(es) :
          /\ es[k].block \in 1..Len(bs)
          /\ LET b == bs[es[k].block]
             IN  /\ ~Truthy(b.match)
                 /\ b.block_index = es[k].block
                 /\ es[k].stated = [G1 |-> b.G1, G2 |-> b.G2, G |-> b.G, D |-> b.D]
                 /\ es[k].computed = [G1 |-> b.G1_check, G2 |-> b.G2_check,
                                      G |-> b.G_check, D |-> b.D_check]
    /\ \A k, l \in 1..Len(es) : k < l => es[k].block < es[l].block

\* C19: the errors list holds exactly one entry for each block whose match flag
\* is not true and none for a block whose match is true, in block order; an
\* entry's block is the block's block_index and it carries the four stated and
\* the four computed values; (number of blocks with match true) + len(errors) =
\* total_blocks.  This holds of the lists while they are built and of the file
\* written at the end.
C19_ErrorsList ==
    /\ ErrorsAgree(blocks, errors)
    /\ out.written =>
          /\ out.blocks = blocks /\ out.errors = errors
          /\ out.total_blocks = Len(out.blocks)
          /\ ErrorsAgree(out.blocks, out.errors)

C19_Witness ==
    /\ out.written /\ Len(out.blocks) = 3 /\ Len(out.errors) = 1
    /\ out.errors[1].block = 2
    /\ out.blocks[1].match = "True" /\ out.blocks[3].match = "True"

(***************************************************************************)
(* Claims about the vision batch (checked under SpecBatch)                 *)
(***************************************************************************)
\* a page reached while its output file exists and --force is not given: no
\* call, the file is left as it was
SkippedUntouched(e) ==
    (e.before # NoOutFile /\ ~e.force) => (~e.called /\ e.after = e.before)

\* a run without --force makes no call for a page that got an output file in an
\* earlier run
RerunMakesNoCall ==
    \A i, j \in 1..Len(blog) :
        (/\ i < j /\ blog[i].run < blog[j].run /\ blog[i].page = blog[j].page
         /\ blog[i].after # NoOutFile /\ ~blog[j].force) => ~blog[j].called

\* C20 as stated: a page whose output file exists when it is reached is passed
\* over without --force (no API call, file unchanged), and with --force it is
\* processed and its file is overwritten; a later run without --force makes no
\* call for a page that got an output file.
C20_ForceAlwaysOverwrites ==
    /\ \A k \in 1..Len(blog) :
          /\ SkippedUntouched(blog[k])
          /\ (blog[k].before # NoOutFile /\ blog[k].force) =>
                 /\ blog[k].called
                 /\ blog[k].after # blog[k].before
                 /\ blog[k].after.call = blog[k].call
    /\ RerunMakesNoCall

\* C20 amended: as stated, except that with --force the page is processed and
\* its file overwritten only when the image page_NNN.png of the page exists; when
\* the image is missing the page is passed over with no API call and its existing
\* output file is left unchanged, with --force as without.
C20_SkipUnlessForced ==
    /\ \A k \in 1..Len(blog) :
          /\ SkippedUntouched(blog[k])
          /\ (blog[k].before # NoOutFile /\ blog[k].force /\ blog[k].image) =>
                 /\ blog[k].called
                 /\ blog[k].after # blog[k].before
                 /\ blog[k].after.call = blog[k].call
                 /\ blog[k].after = out_files[blog[k].page]
                        \/ \E l \in (k + 1)..Len(blog) :
                              blog[l].page = blog[k].page /\ blog[l].called
          /\ (blog[k].before # NoOutFile /\ blog[k].force /\ ~blog[k].image) =>
                 (~blog[k].called /\ blog[k].after = blog[k].before)
    /\ RerunMakesNoCall
    /\ Len(api_calls) = Cardinality({k \in 1..Len(blog) : blog[k].called})

C20_Witness ==
    /\ bpc = "exit0" /\ run = 2
    /\ \E k \in 1..Len(blog) :
          /\ blog[k].run = 1 /\ blog[k].before # NoOutFile /\ ~blog[k].force
          /\ ~blog[k].called /\ out_files[blog[k].page] = blog[k].before
    /\ \E i, j \in 1..Len(blog) :
          /\ blog[i].run = 1 /\ blog[i].called /\ blog[j].run = 2
          /\ blog[j].page = blog[i].page /\ blog[j].force /\ blog[j].called
          /\ blog[j].before = blog[i].after /\ blog[j].after # blog[i].after

\* the steps of run r, in the order they were taken
StepsOfRun(r) == SelectSeq(blog, LAMBDA e : e.run = r)

\* C21: a failure while processing one page is captured for that page only: the
\* call leaves an error marker {page, error} as that page's output file, the
\* loop goes on with the next page of the list (the steps of the current run are
\* the pages of the list consumed so far, in order, and the run ends only when
\* the list is exhausted), and the run ends with exit status 0 (status 1 only
\* when PAGES_DIR is missing, before any page).
C21_FailureCaptured ==
    /\ \A k \in 1..Len(blog) :
          blog[k].called =>
              \/ blog[k].after = ErrorMarker(blog[k].page, blog[k].call)
              \/ \E o \in {"list", "null"} :
                    blog[k].after = Payload(blog[k].page, o, blog[k].call)
    /\ LET cur == StepsOfRun(run)
       IN  /\ Len(cur) = bi
           /\ \A i \in 1..Len(cur) : cur[i].page = page_numbers[i]
    /\ bpc = "exit0" => bi = Len(page_numbers)
    /\ bpc = "exit1" => (~pages_dir /\ bi = 0)
    /\ \A p \in BatchPages :
          out_files[p].kind = "error" =>
              \E k \in 1..Len(blog) :
                  /\ blog[k].page = p /\ blog[k].called
                  /\ blog[k].after = out_files[p]

C21_Witness ==
    /\ bpc = "exit0"
    /\ \E k, l \in 1..Len(blog) :
          /\ k < l /\ blog[k].run = blog[l].run
          /\ blog[k].called /\ blog[k].after.kind = "error"
          /\ out_files[blog[k].page] = blog[k].after
          /\ blog[l].called /\ blog[l].after.kind = "payload"

\* the call of step e failed: the error marker of that call is what it wrote
Failed(e) == e.called /\ e.after.kind = "error"

\* after the call for a page failed in one run, a later run without --force
\* makes no call for the page and leaves its output file as it was, and the page
\* is called again only with --force or when its output file is gone
NoRetryAcrossRuns ==
    \A i, j \in 1..Len(blog) :
        (/\ i < j /\ Failed(blog[i]) /\ blog[i].run < blog[j].run
         /\ blog[i].page = blog[j].page) =>
            /\ ~blog[j].force => (~blog[j].called /\ blog[j].after = blog[j].before)
            /\ blog[j].called => (blog[j].force \/ blog[j].before = NoOutFile)
            /\ (~blog[j].force /\ \A l \in (i + 1)..(j - 1) :
                                    blog[l].page = blog[i].page => ~blog[l].called)
                   => blog[j].after = blog[i].after

\* C27 as stated: a failed page is not retried by a run without --force, which
\* leaves the error marker in place, and is processed again only with --force (or
\* when the marker is gone); within one run each page gets at most one API call.
C27_OneCallPerPage ==
    /\ NoRetryAcrossRuns
    /\ \A i, j \in 1..Len(blog) :
          (/\ i # j /\ blog[i].run = blog[j].run /\ blog[i].page = blog[j].page
           /\ blog[i].called) => ~blog[j].called

\* C27 amended: as stated, except that within one run it is each entry of the
\* page list that gets at most one API call: a page is called twice in one run
\* only when it is listed twice and --force is given, and never after a failure
\* without --force.
C27_NoRetry ==
    /\ NoRetryAcrossRuns
    /\ \A k \in 1..Len(blog) :
          blog[k].called =>
              /\ blog[k].call \in 1..Len(api_calls)
              /\ api_calls[blog[k].call] = [run |-> blog[k].run, page |-> blog[k].page]
              /\ \A l \in 1..Len(blog) : (l # k /\ blog[l].called) =>
                                             blog[l].call # blog[k].call
    /\ Len(api_calls) = Cardinality({k \in 1..Len(blog) : blog[k].called})
    /\ \A i, j \in 1..Len(blog) :
          (/\ i < j /\ blog[i].run = blog[j].run /\ blog[i].page = blog[j].page
           /\ blog[i].called /\ blog[j].called) => blog[j].force

C27_Witness ==
    /\ bpc = "exit0" /\ run = 2 /\ ~force
    /\ \E i, j \in 1..Len(blog) :
          /\ blog[i].run = 1 /\ Failed(blog[i])
          /\ blog[j].run = 2 /\ blog[j].page = blog[i].page
          /\ ~blog[j].called /\ out_files[blog[j].page] = blog[i].after

\* step e passed the page over as already produced (line 168)
SkippedAsProduced(e) == e.before # NoOutFile /\ ~e.force

\* the number of calls made up to and including step k
CallsUpTo(k) == Cardinality({l \in 1..k : blog[l].called})

\* what every step of every run did, and what holds when a run has ended
RunPostcondition ==
    /\ \A k \in 1..Len(blog) :
          LET e == blog[k]
          IN  /\ (~SkippedAsProduced(e) /\ e.image) =>
                     /\ e.called
                     /\ e.after.kind \in {"payload", "error"}
                     /\ e.after.page = e.page /\ e.after.call = e.call
                 \* the calls are made in the order of the list
                     /\ e.call = CallsUpTo(k)
                     /\ api_calls[e.call] = [run |-> e.run, page |-> e.page]
              /\ ~e.image => (~e.called /\ e.after = e.before)
              /\ SkippedAsProduced(e) => (~e.called /\ e.after = e.before)
    /\ Len(api_calls) = CallsUpTo(Len(blog))
    /\ LET cur == StepsOfRun(run)
       IN  /\ Len(cur) = bi
           /\ \A i \in 1..Len(cur) : cur[i].page = page_numbers[i]
           /\ bpc = "exit0" =>
                 /\ bi = Len(page_numbers)
                 /\ \A i \in 1..Len(cur) :
                       (~SkippedAsProduced(cur[i]) /\ cur[i].image) =>
                           /\ out_files[cur[i].page] # NoOutFile
                           /\ out_files[cur[i].page].call >= cur[i].call

\* C28 as stated: every requested page that was not skipped as already produced
\* and whose image exists ends the run with an output file (payload or error
\* marker) after exactly one API call, the calls being made in page-list order;
\* a requested page whose image is missing gets no call and no output file is
\* written for it, and later pages are still processed.
C28_ExactlyOneCall ==
    /\ RunPostcondition
    /\ \A r \in 1..run : \A p \in BatchPages :
          LET steps == {k \in 1..Len(blog) : blog[k].run = r /\ blog[k].page = p}
          IN  (/\ \E k \in steps : ~SkippedAsProduced(blog[k]) /\ blog[k].image
               /\ (r < run \/ bpc = "exit0")) =>
                  Cardinality({k \in steps : blog[k].called}) = 1

\* C28 amended: as stated, with "exactly one API call" counted for each entry of
\* the page list: every entry that was not skipped as already produced and whose
\* image exists makes exactly one call and leaves an output file; a page listed n
\* times gets n calls under --force and one call without it.
C28_RunPostcondition ==
    /\ RunPostcondition
    /\ \A r \in 1..run : \A p \in BatchPages :
          LET steps == {k \in 1..Len(blog) : blog[k].run = r /\ blog[k].page = p}
              calls == Cardinality({k \in steps : blog[k].called})
          IN  /\ calls <= Cardinality(steps)
              /\ (\E k \in steps : ~blog[k].force) => calls <= 1

C28_Witness ==
    /\ bpc = "exit0" /\ page_numbers = <<2, 1>> /\ images = {1}
    /\ Len(StepsOfRun(run)) = 2
    /\ ~StepsOfRun(run)[1].called /\ StepsOfRun(run)[1].before = NoOutFile
    /\ out_files[2] = NoOutFile
    /\ StepsOfRun(run)[2].called /\ out_files[1] = StepsOfRun(run)[2].after

(***************************************************************************)
(* C26: ties between blocks at the same minimal distance                    *)
(***************************************************************************)
\* the distance of line 49 between a block and the query
LDist(b, L1, L2) == RAdd(RAbs(RSub(b.L1, L1)), RAbs(RSub(b.L2, L2)))

\* C26: when several blocks are at the same minimal distance from the query,
\* find_block_by_k1_k2 and find_block_by_l1_l2 return the one that comes first in
\* the block list: every earlier block is strictly farther than the block
\* returned and no later block is closer.
C26_FirstOfTheNearest ==
    fpc = "done" =>
        /\ fres.k # NoBlock =>
              \E i \in 1..Len(fblocks) :
                  /\ fres.k = fblocks[i]
                  /\ \A j \in 1..Len(fblocks) :
                        LET di_ == KDist(fblocks[i], fq[1], fq[2])
                            dj_ == KDist(fblocks[j], fq[1], fq[2])
                        IN  (j < i => RLt(di_, dj_)) /\ (j > i => RLeq(di_, dj_))
        /\ fres.l # NoBlock =>
              \E i \in 1..Len(fblocks) :
                  /\ fres.l = fblocks[i]
                  /\ \A j \in 1..Len(fblocks) :
                        LET di_ == LDist(fblocks[i], fq[1], fq[2])
                            dj_ == LDist(fblocks[j], fq[1], fq[2])
                        IN  (j < i => RLt(di_, dj_)) /\ (j > i => RLeq(di_, dj_))

\* both searches returned a block while a later block of the list is at the same
\* distance from the query
C26_Witness ==
    /\ fpc = "done" /\ fres.k # NoBlock /\ fres.l # NoBlock
    /\ \E j \in 1..Len(fblocks) :
          /\ j > fres.k.block_index
          /\ KDist(fblocks[j], fq[1], fq[2]) = KDist(fres.k, fq[1], fq[2])
    /\ \E j \in 1..Len(fblocks) :
          /\ j > fres.l.block_index
          /\ LDist(fblocks[j], fq[1], fq[2]) = LDist(fres.l, fq[1], fq[2])

(***************************************************************************)
(* C23: the reporting scripts on an empty block list                       *)
(***************************************************************************)
\* C23: no content of a readable, well-formed calculations_verified.json is fatal
\* to the reporting scripts; in particular stats_d terminates normally when the
\* block list is empty, so it never ends in an uncaught exception.
C23_ReportsTerminate == spc # "raised"

(***************************************************************************)
(* C29: the by_index flag of a row of analyze_report_adequacy              *)
(***************************************************************************)
\* the row's block was obtained by the positional tier
Positional(ch) == ch.slot # NoBlock /\ ch.block = ch.slot /\ NoteOf(ch) = NOTE_BY_INDEX

\* C29: a row's by_index flag is true if and only if the row's block was obtained
\* by the positional tier (its note is empty and its block is the one stored at
\* bidx); by_index is false for every row without a block and for every row
\* matched by K1,K2 or by L1,L2.
C29_ByIndexIffPositional ==
    \A i \in 1..Len(a_trace) :
        a_trace[i].ran =>
            LET r == a_rows[a_trace[i].row]
            IN  /\ r.by_index <=> Positional(a_trace[i])
                /\ r.note \in {NOTE_NO_BLOCK, NOTE_BY_K, NOTE_BY_L} => ~r.by_index

(***************************************************************************)
(* C24, C25: the merged graphs and their block indexes                     *)
(***************************************************************************)
\* the graphs of the without-coverage and of the coverage file of page p
GraphsWithout(p)  == IF dir_without[p].kind = "list" THEN dir_without[p].graphs ELSE <<>>
GraphsCoverage(p) == IF dir_coverage[p].kind = "list" THEN dir_coverage[p].graphs ELSE <<>>

\* the number of merged graphs of the first k entries of the page list
RECURSIVE GraphsBefore(_)
GraphsBefore(k) ==
    IF k = 0 THEN 0 ELSE GraphsBefore(k - 1) + Len(GraphsWithout(m_pages[k]))

RECURSIVE SumGraphIds(_)
SumGraphIds(k) ==
    IF k = 0 THEN 0 ELSE SumGraphIds(k - 1) + Len(merged.pages[k].graph_ids)

\* merged graph i of entry k of the page list is the pair of graph i of the page's
\* without-coverage file with the coverage graph of the same page and graph_id
PairOfEntry(k, i) ==
    LET page == m_pages[k]
        gw   == GraphsWithout(page)[i]
        cov  == GraphsCoverage(page)
        gid  == merged.pages[k].graph_ids[i]
        mg   == merged.graphs[GraphsBefore(k - 1) + i]
        same == {j \in 1..Len(cov) : cov[j].graph_id # NoId /\ cov[j].graph_id = gid}
    IN  /\ mg.page = page /\ mg.graph_id = gid
        /\ gid = (IF gw.graph_id = NoId THEN i ELSE gw.graph_id)
        /\ mg.without_coverage = gw.body
        /\ mg.with_coverage = NoBody <=> same = {}
        /\ mg.with_coverage # NoBody => \E j \in same : mg.with_coverage = cov[j].body

\* the merged data, entry by entry of the page list
MergedByEntry ==
    /\ Len(merged.pages) = Len(m_pages)
    /\ Len(merged.graphs) = GraphsBefore(Len(m_pages))
    /\ Len(merged.graphs) = SumGraphIds(Len(merged.pages))
    /\ \A k \in 1..Len(m_pages) :
          /\ merged.pages[k].page = m_pages[k]
          /\ Len(merged.pages[k].graph_ids) = Len(GraphsWithout(m_pages[k]))
          /\ \A i \in 1..Len(GraphsWithout(m_pages[k])) : PairOfEntry(k, i)

\* every graph of the without-coverage file of a requested page is in exactly one
\* merged graph
OnePairPerGraph ==
    \A k \in 1..Len(m_pages) :
        \A i \in 1..Len(GraphsWithout(m_pages[k])) :
            Cardinality({n \in 1..Len(merged.graphs) :
                            merged.graphs[n].without_coverage
                                = GraphsWithout(m_pages[k])[i].body}) = 1

\* C24 as stated: the merge produces exactly one merged pair for each graph of each
\* requested page's without-coverage file, in page-list order then graph order, with
\* page and graph_id set; with_coverage comes from the coverage graph of the same
\* page with the same graph_id and is null iff there is none; the length of
\* merged.graphs is the sum of the lengths of the graph_ids lists.
C24_ExactlyOnePair == mgpc = "done" => (MergedByEntry /\ OnePairPerGraph)

\* C24, amended: the merge produces one merged pair for each graph of the
\* without-coverage file of each entry of the page list (a page listed twice is
\* merged twice), in page-list order then graph order, with page and graph_id set;
\* with_coverage comes from the coverage graph of the same page with the same
\* graph_id and is null iff there is none; the length of merged.graphs is the sum
\* of the lengths of the graph_ids lists.
C24_OnePairPerEntry == mgpc = "done" => MergedByEntry

\* two pages were merged, a merged graph has a coverage part and another has none
\* although the other page's coverage file holds a graph with its graph_id
C24_Witness ==
    /\ mgpc = "done" /\ Len(m_pages) = 2 /\ m_pages[1] # m_pages[2]
    /\ \E n \in 1..Len(merged.graphs) : merged.graphs[n].with_coverage # NoBody
    /\ \E n \in 1..Len(merged.graphs) :
          LET mg == merged.graphs[n]
          IN  /\ mg.with_coverage = NoBody
              /\ \E p \in {1, 2} :
                    /\ p # mg.page
                    /\ \E j \in 1..Len(GraphsCoverage(p)) :
                          GraphsCoverage(p)[j].graph_id = mg.graph_id

\* the inverse of block_index_from_page_graph given with the positional rule
PageOfIndex(block_index)  == ((block_index - 1) \div 2) + 1
GraphOfIndex(block_index) == ((block_index - 1) % 2) + 1

\* C25: the positional mapping is a bijection between (page, graph_id) with
\* page >= 1, graph_id in {1,2} and the block indexes >= 1, with the inverse
\* page = ((block_index - 1) div 2) + 1, graph_id = ((block_index - 1) mod 2) + 1,
\* and two distinct (page, graph_id) records of the merged data are never mapped to
\* the same block index.
C25_PositionalBijection ==
    /\ \A page \in 1..4, graph_id \in {1, 2} :
          LET b == block_index_from_page_graph(page, graph_id)
          IN  b >= 1 /\ PageOfIndex(b) = page /\ GraphOfIndex(b) = graph_id
    /\ \A b \in 1..8 :
          /\ PageOfIndex(b) >= 1 /\ GraphOfIndex(b) \in {1, 2}
          /\ block_index_from_page_graph(PageOfIndex(b), GraphOfIndex(b)) = b
    /\ \A n, k \in 1..Len(merged.graphs) :
          (merged.graphs[n].page # merged.graphs[k].page
           \/ merged.graphs[n].graph_id # merged.graphs[k].graph_id) =>
              block_index_from_page_graph(merged.graphs[n].page, merged.graphs[n].graph_id)
                # block_index_from_page_graph(merged.graphs[k].page,
                                              merged.graphs[k].graph_id)

(***************************************************************************)
(* C22, C30: the consumers of the page files                               *)
(***************************************************************************)
\* C22: a page file written with graphs = null is skipped by every consumer of
\* page files without raising: merge_graphics_llm.get_graphs gives no graph for
\* it, and extract_graphs_from_pages never ends in an exception.
C22_NullPageSkipped ==
    /\ get_graphs(PageFile("null", <<>>)) = <<>>
    /\ smpc # "raised"

\* the pairs of distinct graphs that both have a K
Candidates ==
    {xy \in (1..Len(s_graphs)) \X (1..Len(s_graphs)) :
        /\ xy[1] # xy[2]
        /\ ~IsNone(s_graphs[xy[1]].K) /\ ~IsNone(s_graphs[xy[2]].K)}

\* (a.K - K1)^2 + (b.K - K2)^2 of the pair xy for block b
ErrOf(xy, b) == PairErr(s_graphs[xy[1]], s_graphs[xy[2]], b.K1, b.K2)

\* 2 * TOL_K^2 with TOL_K = 0.002
PairBound == Rat(8, 1000000)

\* C30: when the positional rule does not apply, the pair returned by
\* find_graph_pair_for_block, if any, consists of two distinct graphs that both
\* have a K, has an error (a.K - K1)^2 + (b.K - K2)^2 of at most 2 * TOL_K^2 that
\* is minimal over all pairs of graphs in both orientations, and is oriented so
\* that a is the graph matched to K1; when the block lacks K1 or K2, or no pair is
\* within the bound, there is no pair and the block is recorded in details as
\* having no graph pair.
C30_NearestPair ==
    \A k \in 1..Len(details) :
        LET b == s_blocks[k]
            d == details[k]
            lacks == IsNone(b.K1) \/ IsNone(b.K2)
        IN  ~PositionalPair(b, s_graphs) =>
                /\ d.pair # NoPair =>
                      /\ ~lacks
                      /\ d.pair \in Candidates
                      /\ RLeq(ErrOf(d.pair, b), PairBound)
                      /\ \A xy \in Candidates : RLeq(ErrOf(d.pair, b), ErrOf(xy, b))
                      /\ RLeq(ErrOf(d.pair, b), ErrOf(<<d.pair[2], d.pair[1]>>, b))
                /\ (lacks \/ \A xy \in Candidates : ~RLeq(ErrOf(xy, b), PairBound)) =>
                      /\ d.pair = NoPair
                      /\ d.bidx = b.block_index /\ d.msg = NOTE_NO_PAIR

\* a block without a positional pair got a pair that is returned against the order
\* of the list, at the bound, while another pair of graphs is farther
C30_Witness ==
    \E k \in 1..Len(details) :
        LET b == s_blocks[k]
            d == details[k]
        IN  /\ ~PositionalPair(b, s_graphs)
            /\ d.pair # NoPair /\ d.pair[1] > d.pair[2]
            /\ Len(s_graphs) >= 3
            /\ \E xy \in Candidates : RLt(ErrOf(d.pair, b), ErrOf(xy, b))
            /\ \E xy \in Candidates : ErrOf(xy, b) = PairBound

====
